---- MODULE Spec2Model ----
(***************************************************************************)
(* Rate limiter of backend/utils/rate_limiting.py.                         *)
(*                                                                         *)
(* RateLimiter.check_rate_limit is a coroutine: it suspends at every store *)
(* round trip (incr, expire) and reads the clock three times (in           *)
(* _check_redis_limit, in _check_local_fallback and when the rejection     *)
(* record is built).  One action models the code between two such points.  *)
(* The store (Redis) keeps one counter per key with an optional expiry;    *)
(* the clock and the availability of the store belong to the environment.  *)
(*                                                                         *)
(* Cache manager of backend/utils/cache.py.                                *)
(*                                                                         *)
(* CacheManager.get, set and invalidate and the cached decorator are       *)
(* coroutines that suspend at every call of services.redis (get, set,      *)
(* keys, delete).  Strings are sequences of characters, so that keys,      *)
(* serialized values and key patterns are the texts the code builds.       *)
(***************************************************************************)
EXTENDS Integers, Sequences, FiniteSets, TLC

(* ---------------------------------------------------------------------- *)
(* Bounds of the model                                                     *)
(* ---------------------------------------------------------------------- *)

\* calls started in one behaviour
MaxCalls == 3

Client == {"10.0.0.5", "203.0.113.9"}

Proc == {1, 2}

\* cache operations started in one behaviour
MaxOps == 3

CacheProc == {1, 2}

(* ---------------------------------------------------------------------- *)
(* Static configuration                                                    *)
(* ---------------------------------------------------------------------- *)

\* RateLimitTier: the values of the enumeration
Tier == {"admin_actions", "app_submission", "billing", "email", "content", "general_auth"}

\* an unset (None) limit; the code tests the limits for truthiness
Unset == 0

RateLimitConfig(m, h, d) == [requests_per_minute |-> m, requests_per_hour |-> h, requests_per_day |-> d]

RATE_LIMIT_CONFIGS ==
    [t \in Tier |->
        CASE t = "admin_actions"  -> RateLimitConfig(10, 50, Unset)
          [] t = "app_submission" -> RateLimitConfig(Unset, 1, 3)
          [] t = "billing"        -> RateLimitConfig(5, Unset, Unset)
          [] t = "email"          -> RateLimitConfig(Unset, 10, Unset)
          [] t = "content"        -> RateLimitConfig(20, Unset, Unset)
          [] t = "general_auth"   -> RateLimitConfig(15, Unset, Unset)]

\* the windows in the order in which _check_redis_limit handles them
Windows == <<"minute", "hour", "day">>

WindowLen(w) == CASE w = "minute" -> 60 [] w = "hour" -> 3600 [] w = "day" -> 86400

\* the label of the window inside the store key ("min:", "hour:", "day:")
WindowLabel(w) == CASE w = "minute" -> "min" [] w = "hour" -> "hour" [] w = "day" -> "day"

LimitOf(config, w) ==
    CASE w = "minute" -> config.requests_per_minute
      [] w = "hour"   -> config.requests_per_hour
      [] w = "day"    -> config.requests_per_day

Configured(t) == {w \in {"minute", "hour", "day"} : LimitOf(RATE_LIMIT_CONFIGS[t], w) # Unset}

\* the clock values of a behaviour: around the end of a minute under a tier
\* with a per-minute limit only, two minutes under a tier with a per-minute
\* and a per-hour limit, the starts of three hours under the others
TimesFor(ws) ==
    IF ws = {"minute"} THEN {0, 59, 61}
    ELSE IF "minute" \in ws THEN {0, 60}
    ELSE {0, 3600, 7200}

\* NextWindow stopping after the first configured window (elif for if)
NextWindowElif(config, i) ==
    IF i = 0 /\ \E j \in 1..3 : LimitOf(config, Windows[j]) # Unset
    THEN CHOOSE j \in 1..3 :
            /\ LimitOf(config, Windows[j]) # Unset
            /\ \A k \in 1..(j - 1) : LimitOf(config, Windows[k]) = Unset
    ELSE 0

\* index of the first configured window after index i, 0 when there is none
NextWindow(config, i) ==
    IF \E j \in (i + 1)..3 : LimitOf(config, Windows[j]) # Unset
    THEN CHOOSE j \in (i + 1)..3 :
            /\ LimitOf(config, Windows[j]) # Unset
            /\ \A k \in (i + 1)..(j - 1) : LimitOf(config, Windows[k]) = Unset
    ELSE 0

Bucket(time, w) == time \div WindowLen(w)

\* GetKey with the bucket left out of the key
GetKeyNoBucket(identifier, t, w, time) == <<"rate_limit", t, identifier, WindowLabel(w), 0>>

\* GetKey with the client left out of the key
GetKeyNoClient(identifier, t, w, time) == <<"rate_limit", t, "", WindowLabel(w), Bucket(time, w)>>

\* _get_key: rate_limit:<tier>:<identifier>:<label>:<bucket>
GetKey(identifier, t, w, time) == <<"rate_limit", t, identifier, WindowLabel(w), Bucket(time, w)>>

\* MinuteKey with the tier left out of the key
MinuteKeyNoTier(t, time) == <<"", "min", time \div 60>>

\* MinuteKey with the bucket left out of the key
MinuteKeyNoBucket(t, time) == <<t, "min", 0>>

\* the key of the per-client fallback dictionary: <tier>_min_<bucket>
MinuteKey(t, time) == <<t, "min", time \div 60>>

(* ---------------------------------------------------------------------- *)
(* Values                                                                  *)
(* ---------------------------------------------------------------------- *)

\* a mapping without entries
EmptyMap == [k \in {} |-> 0]

\* a store key that carries no expiry
NoTTL == -1

\* check_rate_limit returning None
NoneInfo == [exceeded |-> FALSE]

Digit(d) == SubSeq("0123456789", d + 1, d + 1)

RECURSIVE Digits(_)
Digits(n) == IF n < 10 THEN <<Digit(n)>> ELSE Append(Digits(n \div 10), Digit(n % 10))

\* str() of an integer: the decimal digits, with a leading "-" when negative
Str(n) == IF n < 0 THEN <<"-">> \o Digits(0 - n) ELSE Digits(n)

DigitValue(ch) == CHOOSE d \in 0..9 : Digit(d) = ch

RECURSIVE Number(_)
Number(digits) ==
    IF Len(digits) = 0 THEN 0
    ELSE 10 * Number(SubSeq(digits, 1, Len(digits) - 1)) + DigitValue(digits[Len(digits)])

\* the integer a decimal header value denotes
ParseInt(text) == IF Head(text) = "-" THEN 0 - Number(Tail(text)) ELSE Number(text)

(* ---------------------------------------------------------------------- *)
(* Strings and Python values                                               *)
(* ---------------------------------------------------------------------- *)

\* the characters of the string literals of the source and of the inputs
Chars(s) == [i \in 1..Len(s) |-> SubSeq(s, i, i)]

\* the characters of the model in the order of their code points
Alphabet ==
    <<" ", "\"", "*", ",", "-", "/", "0", "1", "2", "3", "4", "5", "6", "7", "8",
      "9", ":", "?", "F", "N", "T", "[", "]", "_", "a", "b", "c", "d", "e",
      "f", "g", "h", "i", "j", "k", "l", "m", "n", "o", "p", "q", "r", "s",
      "t", "u", "v", "w", "x", "y", "z", "{", "}">>

Ord(c) == CHOOSE i \in 1..Len(Alphabet) : Alphabet[i] = c

\* a < b for two strings, as Python compares them
StrLess(a, b) ==
    \E i \in 1..(Len(a) + 1) :
        /\ i <= Len(b)
        /\ \A j \in 1..(i - 1) : a[j] = b[j]
        /\ i = Len(a) + 1 \/ Ord(a[i]) < Ord(b[i])

RECURSIVE Join(_, _)
\* sep.join(parts)
Join(parts, sep) ==
    IF Len(parts) = 0 THEN <<>>
    ELSE IF Len(parts) = 1 THEN parts[1]
    ELSE parts[1] \o sep \o Join(Tail(parts), sep)

\* Python values: the name of the type and the content
PyNone == [t |-> "NoneType", v |-> <<>>]

PyBool(b) == [t |-> "bool", v |-> b]

PyInt(n) == [t |-> "int", v |-> n]

PyStr(s) == [t |-> "str", v |-> s]

PyList(items) == [t |-> "list", v |-> items]

PyTuple(items) == [t |-> "tuple", v |-> items]

\* a dict: its items <<key, value>> in the order of insertion
PyDict(items) == [t |-> "dict", v |-> items]

\* a datetime: <<year, month, day, hour, minute, second>>
PyDatetime(fields) == [t |-> "datetime", v |-> fields]

\* a list that contains itself
PyCyclic == [t |-> "cyclic", v |-> <<>>]

\* an exception raised instead of a value returned
TypeError == <<"TypeError">>

ValueError == <<"ValueError">>

Raised(text) == text \in {TypeError, ValueError}

Pad2(n) == IF n < 10 THEN <<"0">> \o Digits(n) ELSE Digits(n)

\* str() of a datetime without microseconds: YYYY-MM-DD HH:MM:SS
DatetimeStr(f) ==
    Digits(f[1]) \o <<"-">> \o Pad2(f[2]) \o <<"-">> \o Pad2(f[3]) \o <<" ">>
        \o Pad2(f[4]) \o <<":">> \o Pad2(f[5]) \o <<":">> \o Pad2(f[6])

\* str(value), as an f-string and json's default=str use it
Format(value) ==
    CASE value.t = "str"      -> value.v
      [] value.t = "int"      -> Str(value.v)
      [] value.t = "NoneType" -> Chars("None")
      [] value.t = "bool"     -> IF value.v THEN Chars("True") ELSE Chars("False")
      [] value.t = "datetime" -> DatetimeStr(value.v)

(* ---------------------------------------------------------------------- *)
(* json.dumps and json.loads                                               *)
(* ---------------------------------------------------------------------- *)

Quote(s) == <<"\"">> \o s \o <<"\"">>

\* the text of a dict key: str, int, bool and None keys are allowed
KeyText(k) ==
    CASE k.t = "str"      -> k.v
      [] k.t = "int"      -> Str(k.v)
      [] k.t = "bool"     -> IF k.v THEN Chars("true") ELSE Chars("false")
      [] k.t = "NoneType" -> Chars("null")
      [] OTHER            -> TypeError

\* k1 < k2 for two dict keys; str and int do not compare
KeyLess(k1, k2) ==
    IF k1.t = "str" /\ k2.t = "str" THEN StrLess(k1.v, k2.v)
    ELSE IF k1.t = "int" /\ k2.t = "int" THEN k1.v < k2.v
    ELSE FALSE

Comparable(items) ==
    \A i, j \in 1..Len(items) : items[i][1].t = items[j][1].t /\ items[i][1].t \in {"str", "int"}

RECURSIVE SortedByKey(_)
\* sorted(items) for items <<key, value>> with distinct keys
SortedByKey(items) ==
    IF Len(items) <= 1 THEN items
    ELSE LET m    == CHOOSE i \in 1..Len(items) :
                        \A j \in 1..Len(items) : j # i => KeyLess(items[i][1], items[j][1])
             rest == [j \in 1..(Len(items) - 1) |-> IF j < m THEN items[j] ELSE items[j + 1]]
         IN  <<items[m]>> \o SortedByKey(rest)

RECURSIVE JsonDumps(_, _, _)
RECURSIVE DumpElements(_, _, _)
RECURSIVE DumpMembers(_, _, _)

\* the elements of a list or tuple, separated by ", "
DumpElements(items, sort_keys, default) ==
    IF Len(items) = 0 THEN <<>>
    ELSE LET first == JsonDumps(items[1], sort_keys, default)
             rest  == DumpElements(Tail(items), sort_keys, default)
         IN  IF Raised(first) THEN first
             ELSE IF Raised(rest) THEN rest
             ELSE IF Len(items) = 1 THEN first
             ELSE first \o <<",", " ">> \o rest

\* the members "key": value of a dict, separated by ", "
DumpMembers(items, sort_keys, default) ==
    IF Len(items) = 0 THEN <<>>
    ELSE LET key   == KeyText(items[1][1])
             first == JsonDumps(items[1][2], sort_keys, default)
             rest  == DumpMembers(Tail(items), sort_keys, default)
         IN  IF Raised(key) THEN key
             ELSE IF Raised(first) THEN first
             ELSE IF Raised(rest) THEN rest
             ELSE IF Len(items) = 1 THEN Quote(key) \o <<":", " ">> \o first
             ELSE Quote(key) \o <<":", " ">> \o first \o <<",", " ">> \o rest

\* json.dumps(value, sort_keys=..., default=str or nothing): the text, or the
\* exception raised
JsonDumps(value, sort_keys, default) ==
    CASE value.t = "cyclic"   -> ValueError
      [] value.t = "NoneType" -> Chars("null")
      [] value.t = "bool"     -> IF value.v THEN Chars("true") ELSE Chars("false")
      [] value.t = "int"      -> Str(value.v)
      [] value.t = "str"      -> Quote(value.v)
      [] value.t \in {"list", "tuple"} ->
            LET inner == DumpElements(value.v, sort_keys, default)
            IN  IF Raised(inner) THEN inner ELSE <<"[">> \o inner \o <<"]">>
      [] value.t = "dict" ->
            IF sort_keys /\ ~Comparable(value.v) /\ Len(value.v) > 1 THEN TypeError
            ELSE LET items == IF sort_keys THEN SortedByKey(value.v) ELSE value.v
                     inner == DumpMembers(items, sort_keys, default)
                 IN  IF Raised(inner) THEN inner ELSE <<"{">> \o inner \o <<"}">>
      [] OTHER -> IF default THEN Quote(Format(value)) ELSE TypeError

\* the result of a failed parse
JSONDecodeError == [ok |-> FALSE]

IsDigit(c) == c \in {"0", "1", "2", "3", "4", "5", "6", "7", "8", "9"}

RECURSIVE SkipSpace(_, _)
SkipSpace(text, i) ==
    IF i <= Len(text) /\ text[i] = " " THEN SkipSpace(text, i + 1) ELSE i

RECURSIVE Find(_, _, _)
\* the first index at or after i at which text holds c; 0 when there is none
Find(text, i, c) ==
    IF i > Len(text) THEN 0
    ELSE IF text[i] = c THEN i
    ELSE Find(text, i + 1, c)

RECURSIVE DigitsEnd(_, _)
\* the first index at or after i at which text holds no digit
DigitsEnd(text, i) ==
    IF i <= Len(text) /\ IsDigit(text[i]) THEN DigitsEnd(text, i + 1) ELSE i

StartsAt(text, i, literal) ==
    /\ i + Len(literal) - 1 <= Len(text)
    /\ SubSeq(text, i, i + Len(literal) - 1) = literal

\* d[key] = value on the items of a dict
PutItem(items, key, value) ==
    IF \E i \in 1..Len(items) : items[i][1] = key
    THEN [i \in 1..Len(items) |-> IF items[i][1] = key THEN <<key, value>> ELSE items[i]]
    ELSE Append(items, <<key, value>>)

RECURSIVE ParseValue(_, _)
RECURSIVE ParseElements(_, _, _)
RECURSIVE ParseMembers(_, _, _)

\* the value that starts at index i of text and the index after it
ParseValue(text, i0) ==
    LET i == SkipSpace(text, i0)
    IN  IF i > Len(text) THEN JSONDecodeError
        ELSE IF StartsAt(text, i, Chars("null")) THEN [ok |-> TRUE, v |-> PyNone, i |-> i + 4]
        ELSE IF StartsAt(text, i, Chars("true")) THEN [ok |-> TRUE, v |-> PyBool(TRUE), i |-> i + 4]
        ELSE IF StartsAt(text, i, Chars("false")) THEN [ok |-> TRUE, v |-> PyBool(FALSE), i |-> i + 5]
        ELSE IF text[i] = "\""
        THEN LET j == Find(text, i + 1, "\"")
             IN  IF j = 0 THEN JSONDecodeError
                 ELSE [ok |-> TRUE, v |-> PyStr(SubSeq(text, i + 1, j - 1)), i |-> j + 1]
        ELSE IF IsDigit(text[i]) \/ (text[i] = "-" /\ i < Len(text) /\ IsDigit(text[i + 1]))
        THEN LET e == DigitsEnd(text, i + 1)
             IN  [ok |-> TRUE, v |-> PyInt(ParseInt(SubSeq(text, i, e - 1))), i |-> e]
        ELSE IF text[i] = "[" THEN ParseElements(text, i + 1, <<>>)
        ELSE IF text[i] = "{" THEN ParseMembers(text, i + 1, <<>>)
        ELSE JSONDecodeError

\* the elements of an array up to its closing bracket
ParseElements(text, i0, acc) ==
    LET i == SkipSpace(text, i0)
    IN  IF i > Len(text) THEN JSONDecodeError
        ELSE IF text[i] = "]" /\ Len(acc) = 0 THEN [ok |-> TRUE, v |-> PyList(acc), i |-> i + 1]
        ELSE LET r == ParseValue(text, i)
             IN  IF ~r.ok THEN JSONDecodeError
                 ELSE LET j == SkipSpace(text, r.i)
                      IN  IF j > Len(text) THEN JSONDecodeError
                          ELSE IF text[j] = "," THEN ParseElements(text, j + 1, Append(acc, r.v))
                          ELSE IF text[j] = "]"
                          THEN [ok |-> TRUE, v |-> PyList(Append(acc, r.v)), i |-> j + 1]
                          ELSE JSONDecodeError

\* the members of an object up to its closing brace; a repeated key keeps
\* its place and takes the last value
ParseMembers(text, i0, acc) ==
    LET i == SkipSpace(text, i0)
    IN  IF i > Len(text) THEN JSONDecodeError
        ELSE IF text[i] = "}" /\ Len(acc) = 0 THEN [ok |-> TRUE, v |-> PyDict(acc), i |-> i + 1]
        ELSE LET k == ParseValue(text, i)
             IN  IF ~k.ok THEN JSONDecodeError
                 ELSE IF k.v.t # "str" THEN JSONDecodeError
                 ELSE LET c == SkipSpace(text, k.i)
                      IN  IF c > Len(text) THEN JSONDecodeError
                          ELSE IF text[c] # ":" THEN JSONDecodeError
                          ELSE LET r == ParseValue(text, c + 1)
                               IN  IF ~r.ok THEN JSONDecodeError
                                   ELSE LET j    == SkipSpace(text, r.i)
                                            next == PutItem(acc, k.v, r.v)
                                        IN  IF j > Len(text) THEN JSONDecodeError
                                            ELSE IF text[j] = "," THEN ParseMembers(text, j + 1, next)
                                            ELSE IF text[j] = "}"
                                            THEN [ok |-> TRUE, v |-> PyDict(next), i |-> j + 1]
                                            ELSE JSONDecodeError

\* json.loads(text): the value, or ok = FALSE for a JSONDecodeError
JsonLoads(text) ==
    LET r == ParseValue(text, 1)
    IN  IF ~r.ok THEN JSONDecodeError
        ELSE IF SkipSpace(text, r.i) <= Len(text) THEN JSONDecodeError
        ELSE [ok |-> TRUE, v |-> r.v]

(* ---------------------------------------------------------------------- *)
(* Cache configuration and cache keys                                      *)
(* ---------------------------------------------------------------------- *)

\* the cache types CACHE_CONFIGS has an entry for
CacheType ==
    {"admin_stats", "article_lists", "author_data", "application_lists", "analytics",
     "audit_logs", "user_sessions"}

CacheConfig(ttl_seconds, invalidation_pattern) ==
    [ttl_seconds |-> ttl_seconds, invalidation_pattern |-> invalidation_pattern]

CACHE_CONFIGS ==
    [t \in CacheType |->
        CASE t = "admin_stats"       -> CacheConfig(300, Chars("admin:stats:*"))
          [] t = "article_lists"     -> CacheConfig(180, Chars("articles:list:*"))
          [] t = "author_data"       -> CacheConfig(600, Chars("authors:*"))
          [] t = "application_lists" -> CacheConfig(120, Chars("applications:*"))
          [] t = "analytics"         -> CacheConfig(900, Chars("analytics:*"))
          [] t = "audit_logs"        -> CacheConfig(60, Chars("audit:*"))
          [] t = "user_sessions"     -> CacheConfig(30, Chars("sessions:*"))]

\* CACHE_CONFIGS.get(cache_type) is not None
HasConfig(cache_type) == cache_type \in DOMAIN CACHE_CONFIGS

\* None where a string is expected
Nil == <<"None">>

\* the truth value of an optional string: None and "" are false
Truthy(s) == s # Nil /\ Len(s) > 0

\* SortedKwargs leaving the keyword arguments in the order of the call
UnsortedKwargs(kwargs) == kwargs

\* sorted(kwargs.items()); kwargs are the items <<PyStr(name), value>>
SortedKwargs(kwargs) == SortedByKey(kwargs)

\* one part name:value; a dict or list value is embedded as its JSON text
\* with sorted keys
KeyPart(item) ==
    LET value == IF item[2].t \in {"dict", "list", "cyclic"}
                 THEN JsonDumps(item[2], TRUE, FALSE)
                 ELSE Format(item[2])
    IN  IF Raised(value) THEN value ELSE item[1].v \o <<":">> \o value

\* _generate_cache_key(prefix, **kwargs): the key, or the exception raised
GenerateCacheKey(prefix, kwargs) ==
    LET sorted_kwargs == SortedKwargs(kwargs)
        key_parts     == [i \in 1..Len(sorted_kwargs) |-> KeyPart(sorted_kwargs[i])]
    IN  IF \E i \in 1..Len(key_parts) : Raised(key_parts[i]) THEN TypeError
        ELSE Join(<<prefix>> \o key_parts, <<":">>)

\* the key get and set build from their arguments
CacheKey(cache_type, key_suffix, kwargs) ==
    GenerateCacheKey(Chars("cache:") \o Chars(cache_type),
                     <<<<PyStr(Chars("key_suffix")), PyStr(key_suffix)>>>> \o kwargs)

\* InvalidationPattern matching every key
InvalidationPatternAll(cache_type, pattern) == Chars("*")

\* pattern or config.invalidation_pattern
InvalidationPattern(cache_type, pattern) ==
    IF Truthy(pattern) THEN pattern ELSE CACHE_CONFIGS[cache_type].invalidation_pattern

\* SetEx storing the entry without an expiry
SetExNone(cache_type) == NoTTL

\* ex=config.ttl_seconds
SetEx(cache_type) == CACHE_CONFIGS[cache_type].ttl_seconds

RECURSIVE GlobMatch(_, _)
\* glob-style match of a key pattern: * stands for any characters, ? for one
GlobMatch(pattern, text) ==
    IF Len(pattern) = 0 THEN Len(text) = 0
    ELSE IF Head(pattern) = "*"
    THEN GlobMatch(Tail(pattern), text) \/ (Len(text) > 0 /\ GlobMatch(pattern, Tail(text)))
    ELSE /\ Len(text) > 0
         /\ Head(pattern) = "?" \/ Head(pattern) = Head(text)
         /\ GlobMatch(Tail(pattern), Tail(text))

(* ---------------------------------------------------------------------- *)
(* PerformanceMiddleware, the admin gate and the hooks of invalidation     *)
(* ---------------------------------------------------------------------- *)

\* the truth value Python gives a value: if cached_data
PyTruthy(value) ==
    CASE value.t = "NoneType" -> FALSE
      [] value.t = "bool"     -> value.v
      [] value.t = "int"      -> value.v # 0
      [] value.t \in {"str", "list", "tuple", "dict"} -> Len(value.v) > 0
      [] OTHER                -> TRUE

\* sub in text
Contains(text, sub) == \E i \in 1..(Len(text) + 1) : StartsAt(text, i, sub)

\* self.cache_enabled_endpoints
CacheEnabledEndpoints ==
    {Chars("/api/admin/articles"), Chars("/api/admin/authors"), Chars("/api/admin/applications"),
     Chars("/api/admin/analytics"), Chars("/api/admin/audit-logs"), Chars("/api/admin/statistics")}

\* _generate_cache_key: the path, then param:value for the parameters of
\* the query in their order, joined by colons
RequestKey(path, query) ==
    LET sorted_params == SortedByKey(query)
        key_parts     == [i \in 1..Len(sorted_params) |->
                              sorted_params[i][1].v \o <<":">> \o sorted_params[i][2].v]
    IN  Join(<<path>> \o key_parts, <<":">>)

\* _determine_cache_type
DetermineCacheType(path) ==
    IF Contains(path, Chars("/articles")) THEN "article_lists"
    ELSE IF Contains(path, Chars("/authors")) THEN "author_data"
    ELSE IF Contains(path, Chars("/applications")) THEN "application_lists"
    ELSE IF Contains(path, Chars("/analytics")) THEN "analytics"
    ELSE IF Contains(path, Chars("/audit-logs")) THEN "audit_logs"
    ELSE IF Contains(path, Chars("/statistics")) THEN "admin_stats"
    ELSE "article_lists"

\* who sends a request: a global admin, an authenticated user who is not
\* one, somebody without a valid bearer token
User == {"admin", "member", "anonymous"}

\* the status of the response of a route that depends on
\* require_global_admin: 401 without a valid token, 403 for a user who is
\* not a global admin, the route's own answer otherwise
RequireGlobalAdmin(user) ==
    CASE user = "anonymous" -> 401
      [] user = "member"    -> 403
      [] OTHER              -> 200

\* the handlers of admin_api.py that change articles, applications or
\* authors
MutatingOperation ==
    {"delete_article_admin", "update_article_admin", "archive_article_admin",
     "review_application_admin", "approve_application_admin", "reject_application_admin",
     "update_author_status_admin"}

\* the hook of utils.cache written for what a handler changes
HookFor(operation) ==
    CASE operation \in {"delete_article_admin", "update_article_admin", "archive_article_admin"}
            -> "invalidate_article_caches"
      [] operation = "update_author_status_admin" -> "invalidate_author_caches"
      [] OTHER -> "invalidate_application_caches"

\* the cache types a hook invalidates
HookTypes(hook) ==
    CASE hook = "invalidate_article_caches"     -> {"article_lists", "admin_stats", "analytics"}
      [] hook = "invalidate_author_caches"      -> {"author_data", "admin_stats"}
      [] hook = "invalidate_application_caches" -> {"application_lists", "admin_stats"}
      [] OTHER                                  -> {}

(* ---------------------------------------------------------------------- *)
(* Cache tasks                                                             *)
(* ---------------------------------------------------------------------- *)

ZeroStats == [hits |-> 0, misses |-> 0, sets |-> 0, invalidations |-> 0]

NoHist == [ops |-> 0, gets |-> 0, removed |-> 0, inited |-> FALSE,
           invalidated |-> [t \in CacheType |-> 0], version |-> [t \in CacheType |-> 0]]

\* no entry found by the last set of the same key at the same time
Nothing == [some |-> FALSE]

\* a task: its position (pc), the operation its caller started (op: get,
\* set, invalidate or the cached wrapper), the arguments, the locals of the
\* running CacheManager method and what it returned (ret) or raised.  got,
\* put and inv tell how the get, the set and the invalidate of the
\* operation ended.  counted, wrote, deleted, before, after, expect and age
\* are history: the counters the task incremented, the keys it wrote and
\* deleted, the keys in the store when its invalidate was called and when
\* it returned, the data of the last set of the key it read if that set was
\* made at the same time, and the time since that set.  epoch, seen and
\* stale order the task against the invalidations of its cache type: how
\* many of them had returned when its get was called and when its wrapped
\* function started, and whether the entry its get found was written by a
\* wrapper whose function had started before one of those that had returned
\* when the get was called.  called and outdated order it against the
\* mutations of the data of its cache type: how many of them had returned
\* when its get was called, and whether the entry its get found was stored
\* before one of them.  user, path, query and status are
\* the request PerformanceMiddleware.dispatch handles and the status of its
\* response.
IdleTask ==
    [pc |-> "idle", op |-> "", cache_type |-> "", key_suffix |-> <<>>, kwargs |-> <<>>,
     pattern |-> Nil, cache_key |-> <<>>, data |-> PyNone, text |-> <<>>,
     invalidation_pattern |-> Nil, keys |-> <<>>, found |-> 0,
     ret |-> PyNone, raised |-> FALSE, got |-> "", put |-> "", inv |-> "",
     counted |-> ZeroStats, wrote |-> {}, deleted |-> {}, before |-> {}, after |-> {},
     expect |-> Nothing, age |-> -1, epoch |-> 0, seen |-> -1, stale |-> FALSE,
     called |-> 0, outdated |-> FALSE,
     user |-> "", path |-> <<>>, query |-> <<>>, status |-> 0]

\* no cache operation is made in the behaviour
NoLoad ==
    [types |-> {}, calls |-> {}, payloads |-> {}, patterns |-> {}, procs |-> {}, times |-> {},
     ops |-> {}, users |-> {}, requests |-> {}, mutations |-> {}]

(* ---------------------------------------------------------------------- *)
(* State                                                                   *)
(* ---------------------------------------------------------------------- *)

VARIABLES
    now,            \* time.time(), in whole seconds
    storeUp,        \* whether a store round trip succeeds at this moment
    redis_client,   \* RateLimiter.redis_client is set
    store,          \* the store: key -> [n: counter, exp: expiry time or NoTTL]
    local_fallback, \* RateLimiter._local_fallback: client -> (minute key -> count)
    proc,           \* the request tasks, each inside rate_limit_dependency or idle
    made,           \* history: <<client, tier, window, bucket>> -> calls that read the clock in it
    allowed,        \* history: <<client, tier, minute bucket, mode>> -> calls that returned None
    started,        \* history: calls started in this behaviour
    scope,          \* the clients and tiers that send requests in this behaviour
    cache_client,   \* CacheManager.redis_client is set
    stats,          \* CacheManager._stats
    task,           \* the tasks inside a cache operation, or idle
    written,        \* history: key -> the arguments and the time of the last set that wrote it
    hist,           \* history: operations started, get calls returned, keys deleted,
                    \*          invalidate calls returned and mutations made per cache type
    load,           \* the cache types, arguments and payloads used in this behaviour
    author_applications, \* the table author_applications: row id -> row
    audit_logs,     \* the table audit_logs, in the order of insertion
    outbox,         \* the notifications handed to articles_email_service
    handling,       \* the request tasks inside a handler of applications, or idle
    handled,        \* history: requests to those handlers started in this behaviour
    plan            \* the handlers, rows and schema of this behaviour

vars == <<now, storeUp, redis_client, store, local_fallback, proc, made, allowed, started, scope,
          cache_client, stats, task, written, hist, load,
          author_applications, audit_logs, outbox, handling, handled, plan>>

limiterVars == <<redis_client, local_fallback, proc, made, allowed, started, scope>>

cacheVars == <<cache_client, stats, task, written, hist, load>>

appVars == <<author_applications, audit_logs, outbox, handling, handled, plan>>

\* the tasks that handle requests about applications
AppProc == {1, 2}

\* the locals of a handler: replaced is the status of the row as its update
\* found it, existing whether the user had a row when the handler last
\* touched the table
IdleCall ==
    [pc |-> "idle", handler |-> "", user_id |-> "", application_id |-> 0, action |-> "",
     review_notes |-> <<>>, application |-> [status |-> ""], status_code |-> 0,
     detail |-> "", replaced |-> "", existing |-> FALSE]

NoPlan == [handlers |-> {}, rows |-> <<>>, unique_user_id |-> FALSE, procs |-> {}]

\* no request about applications is made
AppIdle ==
    /\ author_applications = <<>>
    /\ audit_logs = <<>>
    /\ outbox = <<>>
    /\ handling = [p \in AppProc |-> IdleCall]
    /\ handled = 0
    /\ plan = NoPlan

\* the cache manager as constructed
CacheIdle ==
    /\ cache_client = FALSE
    /\ stats = ZeroStats
    /\ task = [p \in CacheProc |-> IdleTask]
    /\ written = EmptyMap
    /\ hist = NoHist

NoBumps == [minute |-> 0, hour |-> 0, day |-> 0, local |-> 0]

IdleProc == [pc |-> "idle", client |-> "", tier |-> "", current_time |-> 0, w |-> 0,
             count |-> 0, results |-> <<>>, mode |-> "", ret |-> NoneInfo,
             resp |-> [raised |-> FALSE], handled |-> FALSE, bumps |-> NoBumps]

\* A behaviour starts at time 0, each client of its scope having made
\* scope.warm[t] calls under each tier t of the scope at that time already,
\* all of them counted by the store (scope.via = "redis": every round trip
\* succeeded) or all of them by the local fallback (scope.via = "local": no
\* store client).
WarmStarts(t) ==
    {0} \cup {LimitOf(RATE_LIMIT_CONFIGS[t], w) - 1 : w \in Configured(t)}

Scopes ==
    \* one client under one tier, one task at a time
    {[clients |-> {"10.0.0.5"}, tiers |-> {t}, procs |-> {1}, times |-> TimesFor(Configured(t)),
      warm |-> [u \in {t} |-> n], via |-> v] :
        t \in Tier, n \in UNION {WarmStarts(u) : u \in Tier}, v \in {"redis", "local"}}
    \* one client under one tier, two tasks at a time
    \cup {[clients |-> {"10.0.0.5"}, tiers |-> {"billing"}, procs |-> Proc, times |-> {0, 60},
           warm |-> [u \in {"billing"} |-> 4], via |-> v] : v \in {"redis", "local"}}
    \* two clients under one tier, within one second
    \cup {[clients |-> Client, tiers |-> {"billing"}, procs |-> Proc, times |-> {0},
           warm |-> [u \in {"billing"} |-> 4], via |-> v] : v \in {"redis", "local"}}
    \* one client under two tiers, within one second
    \cup {[clients |-> {"10.0.0.5"}, tiers |-> {"billing", "app_submission"}, procs |-> Proc,
           times |-> {0},
           warm |-> [u \in {"billing", "app_submission"} |-> IF u = "billing" THEN 4 ELSE 0],
           via |-> "redis"]}

InScope(sc) ==
    /\ \A t \in sc.tiers : sc.warm[t] \in WarmStarts(t)
    /\ sc.via = "local" => /\ \A t \in sc.tiers : "minute" \in Configured(t)
                           /\ \E t \in sc.tiers : sc.warm[t] > 0

WarmKeys(sc) ==
    {k \in sc.clients \X sc.tiers \X {"minute", "hour", "day"} :
        /\ sc.warm[k[2]] > 0
        /\ k[3] \in Configured(k[2])
        /\ sc.via = "local" => k[3] = "minute"}

WarmStore(sc) ==
    LET ks == IF sc.via = "redis" THEN WarmKeys(sc) ELSE {}
    IN  [key \in {GetKey(k[1], k[2], k[3], 0) : k \in ks} |->
            LET k == CHOOSE k \in ks : GetKey(k[1], k[2], k[3], 0) = key
            IN  [n |-> sc.warm[k[2]], exp |-> WindowLen(k[3])]]

WarmLocal(sc) ==
    IF sc.via = "local"
    THEN LET ts == {t \in sc.tiers : sc.warm[t] > 0}
         IN  [c \in sc.clients |->
                [k \in {MinuteKey(t, 0) : t \in ts} |->
                    sc.warm[CHOOSE t \in ts : MinuteKey(t, 0) = k]]]
    ELSE EmptyMap

WarmMade(sc) == [key \in {<<k[1], k[2], k[3], 0>> : k \in WarmKeys(sc)} |-> sc.warm[key[2]]]

\* of the calls made before the behaviour starts, those the per-minute limit
\* let through: the first requests_per_minute of them
WarmAllowed(sc) ==
    LET ks == {k \in WarmKeys(sc) : k[3] = "minute"}
    IN  [key \in {<<k[1], k[2], 0, sc.via>> : k \in ks} |->
            LET n == sc.warm[key[2]]
                m == RATE_LIMIT_CONFIGS[key[2]].requests_per_minute
            IN  IF n < m THEN n ELSE m]

Init ==
    /\ scope \in {sc \in Scopes : InScope(sc)}
    /\ now = 0
    /\ storeUp = TRUE
    /\ redis_client = (WarmStore(scope) # EmptyMap)
    /\ store = WarmStore(scope)
    /\ local_fallback = WarmLocal(scope)
    /\ proc = [p \in Proc |-> IdleProc]
    /\ made = WarmMade(scope)
    /\ allowed = WarmAllowed(scope)
    /\ started = 0
    /\ CacheIdle
    /\ load = NoLoad
    /\ AppIdle

(* ---------------------------------------------------------------------- *)
(* The store (external collaborator): incr, expire, passive expiry         *)
(* ---------------------------------------------------------------------- *)

\* StoreIncr as a read followed by a write of the value read: the increment
\* of a counter that exists already is lost
StoreIncrLost(s, key) ==
    IF key \in DOMAIN s THEN s
    ELSE (key :> [n |-> 1, exp |-> NoTTL]) @@ s

\* INCR: creates the key at 1 without expiry, otherwise adds 1 and keeps the expiry
StoreIncr(s, key) ==
    IF key \in DOMAIN s THEN [s EXCEPT ![key].n = @ + 1]
    ELSE (key :> [n |-> 1, exp |-> NoTTL]) @@ s

\* EXPIRE key ttl at time t: the key, when it exists, expires at t + ttl
StoreExpire(s, key, ttl, t) ==
    IF key \in DOMAIN s THEN [s EXCEPT ![key].exp = t + ttl] ELSE s

\* StoreAt dropping every key that carries an expiry
StoreAtEarly(s, t) ==
    LET alive == {k \in DOMAIN s : s[k].exp = NoTTL}
    IN  [k \in alive |-> s[k]]

\* the keys still alive at time t
StoreAt(s, t) ==
    LET alive == {k \in DOMAIN s : s[k].exp = NoTTL \/ s[k].exp > t}
    IN  [k \in alive |-> s[k]]

(* ---------------------------------------------------------------------- *)
(* RateLimiter                                                             *)
(* ---------------------------------------------------------------------- *)

CounterOf(s, key) == IF key \in DOMAIN s THEN s[key].n ELSE 0

LocalCount(lf, identifier, minute_key) ==
    IF identifier \in DOMAIN lf /\ minute_key \in DOMAIN lf[identifier]
    THEN lf[identifier][minute_key] ELSE 0

\* ResultEntry with the limit itself counted as exceeded (>= for >)
ResultEntryAtLimit(w, count, config, current_time, bucket) ==
    [window     |-> w,
     count      |-> count,
     limit      |-> LimitOf(config, w),
     exceeded   |-> count >= LimitOf(config, w),
     reset_time |-> (current_time \div WindowLen(w) + 1) * WindowLen(w),
     bucket     |-> bucket]

\* one entry of the results dictionary; bucket is history: the bucket of the
\* counter the count was read from
ResultEntry(w, count, config, current_time, bucket) ==
    [window     |-> w,
     count      |-> count,
     limit      |-> LimitOf(config, w),
     exceeded   |-> count > LimitOf(config, w),
     reset_time |-> (current_time \div WindowLen(w) + 1) * WindowLen(w),
     bucket     |-> bucket]

\* _check_local_fallback, lines 174-178: the client's dictionary, created when absent
ClientData(lf, identifier) ==
    IF identifier \in DOMAIN lf THEN lf[identifier] ELSE EmptyMap

\* CountMinute without the test for an existing key: the count starts anew
CountMinuteAnew(client_data, t, current_time) ==
    LET minute_key == MinuteKey(t, current_time)
        old_keys   == {k \in DOMAIN client_data : k[1] = t /\ k[3] < current_time \div 60}
        kept       == [k \in DOMAIN client_data \ old_keys |-> client_data[k]]
    IN  (minute_key :> 1) @@ kept

\* _check_local_fallback, lines 183-190: purge the tier's older minute keys
\* when the current one is new, then count the call
CountMinute(client_data, t, current_time) ==
    LET minute_key == MinuteKey(t, current_time)
        old_keys   == {k \in DOMAIN client_data : k[1] = t /\ k[3] < current_time \div 60}
        kept       == [k \in DOMAIN client_data \ old_keys |-> client_data[k]]
    IN  IF minute_key \in DOMAIN client_data
        THEN [client_data EXCEPT ![minute_key] = @ + 1]
        ELSE (minute_key :> 1) @@ kept

\* LocalAfter counting the call whether or not the tier has a per-minute limit
LocalAfterAlways(lf, identifier, t, current_time) ==
    (identifier :> CountMinute(ClientData(lf, identifier), t, current_time)) @@ lf

\* _local_fallback after _check_local_fallback(identifier, config, tier) at current_time
LocalAfter(lf, identifier, t, current_time) ==
    LET config      == RATE_LIMIT_CONFIGS[t]
        client_data == ClientData(lf, identifier)
        updated     == IF config.requests_per_minute # Unset
                       THEN CountMinute(client_data, t, current_time)
                       ELSE client_data
    IN  (identifier :> updated) @@ lf

\* the results _check_local_fallback returns, read from the updated dictionary
LocalResults(lfAfter, identifier, t, current_time) ==
    LET config == RATE_LIMIT_CONFIGS[t]
    IN  IF config.requests_per_minute # Unset
        THEN <<ResultEntry("minute", lfAfter[identifier][MinuteKey(t, current_time)],
                           config, current_time, current_time \div 60)>>
        ELSE <<>>

\* LimitInfo reporting the last exceeded entry instead of the first
LimitInfoLast(results, time) ==
    IF \E i \in 1..Len(results) : results[i].exceeded
    THEN LET i    == CHOOSE i \in 1..Len(results) :
                        /\ results[i].exceeded
                        /\ \A j \in (i + 1)..Len(results) : ~results[j].exceeded
             data == results[i]
         IN  [exceeded    |-> TRUE,
              window      |-> data.window,
              count       |-> data.count,
              limit       |-> data.limit,
              reset_time  |-> data.reset_time,
              retry_after |-> data.reset_time - time]
    ELSE NoneInfo

\* check_rate_limit, lines 227-242: the first exceeded entry in the order of
\* insertion, or None
LimitInfo(results, time) ==
    IF \E i \in 1..Len(results) : results[i].exceeded
    THEN LET i    == CHOOSE i \in 1..Len(results) :
                        /\ results[i].exceeded
                        /\ \A j \in 1..(i - 1) : ~results[j].exceeded
             data == results[i]
         IN  [exceeded    |-> TRUE,
              window      |-> data.window,
              count       |-> data.count,
              limit       |-> data.limit,
              reset_time  |-> data.reset_time,
              retry_after |-> data.reset_time - time]
    ELSE NoneInfo

\* Dependency with the reset time in the Retry-After header
DependencyResetHeader(limit_info) ==
    IF limit_info.exceeded
    THEN [raised      |-> TRUE,
          status_code |-> 429,
          detail      |-> [error       |-> "Rate limit exceeded",
                           message     |-> <<"Too many requests. Try again in ">>
                                           \o Str(limit_info.retry_after) \o <<" seconds.">>,
                           retry_after |-> limit_info.retry_after,
                           limit       |-> limit_info.limit,
                           window      |-> limit_info.window],
          headers     |-> [RetryAfter |-> Str(limit_info.reset_time)]]
    ELSE [raised |-> FALSE, value |-> TRUE]

\* rate_limit_dependency: True, or HTTPException(429) for a rejection
Dependency(limit_info) ==
    IF limit_info.exceeded
    THEN [raised      |-> TRUE,
          status_code |-> 429,
          detail      |-> [error       |-> "Rate limit exceeded",
                           message     |-> <<"Too many requests. Try again in ">>
                                           \o Str(limit_info.retry_after) \o <<" seconds.">>,
                           retry_after |-> limit_info.retry_after,
                           limit       |-> limit_info.limit,
                           window      |-> limit_info.window],
          headers     |-> [RetryAfter |-> Str(limit_info.retry_after)]]
    ELSE [raised |-> FALSE, value |-> TRUE]

(* ---------------------------------------------------------------------- *)
(* History                                                                 *)
(* ---------------------------------------------------------------------- *)

\* one more call of client c under tier t read the clock at time t0: it
\* counts in the bucket of t0 of every window in ws
MadeAfter(m, c, t, ws, t0) ==
    LET ks == {<<c, t, w, Bucket(t0, w)>> : w \in ws}
    IN  [k \in DOMAIN m \cup ks |->
            (IF k \in DOMAIN m THEN m[k] ELSE 0) + (IF k \in ks THEN 1 ELSE 0)]

\* one more call returned None: it counts for the minute bucket of the
\* counter it read, the store's or the fallback's
AllowedAfter(a, me, limit_info) ==
    IF limit_info.exceeded \/ "minute" \notin Configured(me.tier) THEN a
    ELSE LET k == <<me.client, me.tier, me.results[1].bucket, me.mode>>
         IN  (k :> (IF k \in DOMAIN a THEN a[k] ELSE 0) + 1) @@ a

AllowedIn(c, t, b, mode) ==
    IF <<c, t, b, mode>> \in DOMAIN allowed THEN allowed[<<c, t, b, mode>>] ELSE 0

MadeIn(c, t, w, b) == IF <<c, t, w, b>> \in DOMAIN made THEN made[<<c, t, w, b>>] ELSE 0

(* ---------------------------------------------------------------------- *)
(* Actions                                                                 *)
(* ---------------------------------------------------------------------- *)

\* rate_limit_dependency -> check_rate_limit, up to the first store round
\* trip; without a store client the whole local fallback runs here
Begin(p, c, t) ==
    /\ proc[p].pc \in {"idle", "done"}
    /\ p \in scope.procs
    /\ c \in scope.clients
    /\ t \in scope.tiers
    /\ started < MaxCalls
    /\ started' = started + 1
    /\ \E client \in (IF redis_client THEN {TRUE} ELSE BOOLEAN) :
        /\ redis_client' = client
        /\ IF client
           THEN /\ proc' = [proc EXCEPT ![p] =
                        [IdleProc EXCEPT !.pc = "incr", !.client = c, !.tier = t,
                                         !.current_time = now, !.mode = "redis",
                                         !.w = NextWindow(RATE_LIMIT_CONFIGS[t], 0)]]
                /\ made' = MadeAfter(made, c, t, Configured(t), now)
                /\ UNCHANGED local_fallback
           ELSE LET after == LocalAfter(local_fallback, c, t, now)
                    minute == Configured(t) \cap {"minute"}
                IN  /\ local_fallback' = after
                    /\ proc' = [proc EXCEPT ![p] =
                            [IdleProc EXCEPT !.pc = "decide", !.client = c, !.tier = t,
                                             !.current_time = now, !.mode = "local",
                                             !.results = LocalResults(after, c, t, now),
                                             !.bumps.local =
                                                 LocalCount(after, c, MinuteKey(t, now))
                                                 - LocalCount(local_fallback, c, MinuteKey(t, now))]]
                    /\ made' = MadeAfter(made, c, t, minute, now)
    /\ UNCHANGED <<now, storeUp, store, allowed, scope>>
    /\ UNCHANGED cacheVars
    /\ UNCHANGED appVars

\* the entry of the window just counted is recorded and the next configured
\* window, if any, is taken up
Recorded(p, count) ==
    LET me     == proc[p]
        config == RATE_LIMIT_CONFIGS[me.tier]
        w      == Windows[me.w]
        nw     == NextWindow(config, me.w)
    IN  [me EXCEPT !.results = Append(@, ResultEntry(w, count, config, me.current_time,
                                                     Bucket(me.current_time, w))),
                   !.count = count,
                   !.w = nw,
                   !.pc = IF nw = 0 THEN "decide" ELSE "incr"]

\* count = await self.redis_client.incr(key)
Incr(p) ==
    LET me    == proc[p]
        w     == Windows[me.w]
        key   == GetKey(me.client, me.tier, w, me.current_time)
        after == StoreIncr(store, key)
        count == after[key].n
        bumped == [me EXCEPT !.bumps[w] = @ + count - CounterOf(store, key)]
    IN  /\ me.pc = "incr"
        /\ storeUp
        /\ store' = after
        /\ proc' = [proc EXCEPT ![p] =
                IF count = 1 THEN [bumped EXCEPT !.pc = "expire", !.count = count]
                ELSE [Recorded(p, count) EXCEPT !.bumps = bumped.bumps]]
        /\ UNCHANGED <<now, storeUp, redis_client, local_fallback, made, allowed, started, scope>>
        /\ UNCHANGED cacheVars
        /\ UNCHANGED appVars

\* await self.redis_client.expire(key, <window length>)
Expire(p) ==
    LET me  == proc[p]
        w   == Windows[me.w]
        key == GetKey(me.client, me.tier, w, me.current_time)
    IN  /\ me.pc = "expire"
        /\ storeUp
        /\ store' = StoreExpire(store, key, WindowLen(w), now)
        /\ proc' = [proc EXCEPT ![p] = Recorded(p, me.count)]
        /\ UNCHANGED <<now, storeUp, redis_client, local_fallback, made, allowed, started, scope>>
        /\ UNCHANGED cacheVars
        /\ UNCHANGED appVars

\* the awaited store call raises: the except clause drops the results so far
\* and returns those of _check_local_fallback, which reads the clock anew
StoreFails(p) ==
    LET me     == proc[p]
        after  == LocalAfter(local_fallback, me.client, me.tier, now)
        minute == Configured(me.tier) \cap {"minute"}
        anew   == IF now \div 60 = me.current_time \div 60 THEN {} ELSE minute
    IN  /\ me.pc \in {"incr", "expire"}
        /\ ~storeUp
        /\ local_fallback' = after
        /\ proc' = [proc EXCEPT ![p] =
                [me EXCEPT !.pc = "decide", !.mode = "local", !.w = 0,
                           !.results = LocalResults(after, me.client, me.tier, now),
                           !.bumps.local =
                               LocalCount(after, me.client, MinuteKey(me.tier, now))
                               - LocalCount(local_fallback, me.client, MinuteKey(me.tier, now))]]
        /\ made' = MadeAfter(made, me.client, me.tier, anew, now)
        /\ UNCHANGED <<now, storeUp, redis_client, store, allowed, started, scope>>
        /\ UNCHANGED cacheVars
        /\ UNCHANGED appVars

\* check_rate_limit picks the rejection and rate_limit_dependency turns it
\* into its outcome; the clock is read once more.  The protected handler
\* runs (handled) when the dependency returns and not when it raises.
Decide(p) ==
    LET me         == proc[p]
        limit_info == LimitInfo(me.results, now)
    IN  /\ me.pc = "decide"
        /\ proc' = [proc EXCEPT ![p] =
                [me EXCEPT !.pc = "done", !.ret = limit_info, !.resp = Dependency(limit_info),
                           !.handled = ~Dependency(limit_info).raised]]
        /\ allowed' = AllowedAfter(allowed, me, limit_info)
        /\ UNCHANGED <<now, storeUp, redis_client, store, local_fallback, made, started, scope>>
        /\ UNCHANGED cacheVars
        /\ UNCHANGED appVars

\* time passes; the store drops the keys whose expiry has come
Tick ==
    /\ \E t \in scope.times :
        /\ t > now
        /\ now' = t
        /\ store' = StoreAt(store, t)
    /\ UNCHANGED <<storeUp, redis_client, local_fallback, proc, made, allowed, started, scope>>
    /\ UNCHANGED cacheVars
    /\ UNCHANGED appVars

\* the store becomes unreachable
StoreDown ==
    /\ storeUp
    /\ storeUp' = FALSE
    /\ UNCHANGED <<now, redis_client, store, local_fallback, proc, made, allowed, started, scope>>
    /\ UNCHANGED cacheVars
    /\ UNCHANGED appVars

\* the store is reachable again
StoreRecover ==
    /\ ~storeUp
    /\ storeUp' = TRUE
    /\ UNCHANGED <<now, redis_client, store, local_fallback, proc, made, allowed, started, scope>>
    /\ UNCHANGED cacheVars
    /\ UNCHANGED appVars

Next ==
    \/ \E p \in Proc, c \in Client, t \in Tier : Begin(p, c, t)
    \/ \E p \in Proc : Incr(p)
    \/ \E p \in Proc : Expire(p)
    \/ \E p \in Proc : StoreFails(p)
    \/ \E p \in Proc : Decide(p)
    \/ Tick
    \/ StoreDown
    \/ StoreRecover

Spec == Init /\ [][Next]_vars

(* ---------------------------------------------------------------------- *)
(* The store as services.redis offers it: get, set, keys, delete           *)
(* ---------------------------------------------------------------------- *)

\* GET: the value, or None
StoreGet(s, key) == IF key \in DOMAIN s THEN s[key].value ELSE Nil

\* SET key value EX ex at time t
StoreSet(s, key, value, ex, t) ==
    (key :> [value |-> value, exp |-> IF ex = NoTTL THEN NoTTL ELSE t + ex]) @@ s

\* KEYS pattern
StoreKeysMatching(s, pattern) == {k \in DOMAIN s : GlobMatch(pattern, k)}

\* DEL key
StoreDelete(s, key) == [k \in DOMAIN s \ {key} |-> s[k]]

\* the orders in which KEYS may list the keys
Orderings(ks) ==
    {order \in [1..Cardinality(ks) -> ks] : \A i, j \in 1..Cardinality(ks) : i # j => order[i] # order[j]}

(* ---------------------------------------------------------------------- *)
(* Inputs of the cache operations                                          *)
(* ---------------------------------------------------------------------- *)

\* get("admin_stats", "overview")
Overview == [key_suffix |-> Chars("overview"), kwargs |-> <<>>]

\* get("article_lists")
Bare == [key_suffix |-> <<>>, kwargs |-> <<>>]

Filters == <<<<PyStr(Chars("status")), PyStr(Chars("draft"))>>,
             <<PyStr(Chars("visibility")), PyStr(Chars("public"))>>>>

Reversed(items) == [i \in 1..Len(items) |-> items[Len(items) + 1 - i]]

\* get("article_lists", page=1, filters={"status": "draft", "visibility": "public"})
PageOne ==
    [key_suffix |-> <<>>,
     kwargs |-> <<<<PyStr(Chars("page")), PyInt(1)>>, <<PyStr(Chars("filters")), PyDict(Filters)>>>>]

\* the same call with the keyword arguments, and the keys of the dict, in
\* the opposite order
PageOneReversed ==
    [key_suffix |-> <<>>,
     kwargs |-> <<<<PyStr(Chars("filters")), PyDict(Reversed(Filters))>>, <<PyStr(Chars("page")), PyInt(1)>>>>]

\* get("article_lists", page=2, filters={})
PageTwo ==
    [key_suffix |-> <<>>,
     kwargs |-> <<<<PyStr(Chars("page")), PyInt(2)>>, <<PyStr(Chars("filters")), PyDict(<<>>)>>>>]

\* get("article_lists", "overview", page=1)
PageInt == [key_suffix |-> Chars("overview"), kwargs |-> <<<<PyStr(Chars("page")), PyInt(1)>>>>]

\* get("article_lists", "overview", page="1")
PageStr == [key_suffix |-> Chars("overview"), kwargs |-> <<<<PyStr(Chars("page")), PyStr(<<"1">>)>>>>]

\* get("article_lists", "overview:page:1")
SuffixPage ==
    [key_suffix |-> Chars("overview") \o <<":">> \o Chars("page") \o <<":", "1">>, kwargs |-> <<>>]

\* {"total": 42}
\* GET requests: a cached endpoint without and with a query, an endpoint
\* the middleware does not cache
ArticlesRequest == [method |-> "GET", path |-> Chars("/api/admin/articles"), query |-> <<>>]

ArticlesPageRequest ==
    [method |-> "GET", path |-> Chars("/api/admin/articles"),
     query |-> <<<<PyStr(Chars("page")), PyStr(<<"1">>)>>>>]

UsersRequest == [method |-> "GET", path |-> Chars("/api/admin/users"), query |-> <<>>]

Requests == {ArticlesRequest, ArticlesPageRequest, UsersRequest}

Total42 == PyDict(<<<<PyStr(Chars("total")), PyInt(42)>>>>)

\* payloads json.dumps accepts
Payloads ==
    {Total42, PyNone, PyInt(0), PyStr(<<>>), PyBool(FALSE), PyList(<<>>),
     PyList(<<PyInt(1), PyStr(Chars("a"))>>),
     PyTuple(<<PyInt(1), PyInt(2)>>),
     PyDict(<<<<PyInt(1), PyStr(Chars("a"))>>>>),
     PyDatetime(<<2024, 1, 5, 0, 0, 0>>),
     PyDict(<<<<PyStr(Chars("at")), PyDatetime(<<2024, 1, 5, 13, 30, 9>>)>>>>)}

AllOps == {"get", "set", "invalidate", "cached"}

Loads ==
    \* one cache type over the life of an entry
    {[types |-> {t}, calls |-> {Overview}, payloads |-> {Total42}, patterns |-> {Nil},
      procs |-> {1},
      times |-> {0, CACHE_CONFIGS[t].ttl_seconds - 1, CACHE_CONFIGS[t].ttl_seconds},
      ops |-> AllOps,
      users |-> {}, requests |-> {}, mutations |-> {}] : t \in CacheType}
    \* one payload written and read back
    \cup {[types |-> {"admin_stats"}, calls |-> {Overview}, payloads |-> {v}, patterns |-> {Nil},
           procs |-> {1}, times |-> {0}, ops |-> {"get", "set", "cached"},
           users |-> {}, requests |-> {}, mutations |-> {}] : v \in Payloads \cup {PyCyclic}}
    \* keyword arguments in two orders
    \cup {[types |-> {"article_lists"}, calls |-> {PageOne, PageOneReversed, PageTwo},
           payloads |-> {Total42}, patterns |-> {Nil}, procs |-> {1}, times |-> {0},
           ops |-> {"get", "set"},
           users |-> {}, requests |-> {}, mutations |-> {}]}
    \* arguments that differ in the type of a value or in where a colon stands
    \cup {[types |-> {"article_lists"}, calls |-> {PageInt, PageStr, SuffixPage},
           payloads |-> {Total42}, patterns |-> {Nil}, procs |-> {1}, times |-> {0},
           ops |-> {"get", "set"},
           users |-> {}, requests |-> {}, mutations |-> {}]}
    \* two configured types and one without configuration, explicit patterns
    \cup {[types |-> {"analytics", "author_data", "custom"}, calls |-> {Overview, Bare},
           payloads |-> {Total42}, patterns |-> {Nil, Chars("analytics:*"), Chars("*")},
           procs |-> {1}, times |-> {0}, ops |-> {"set", "invalidate"},
           users |-> {}, requests |-> {}, mutations |-> {}]}
    \* every configured type next to the others
    \cup {[types |-> CacheType, calls |-> {Overview}, payloads |-> {Total42}, patterns |-> {Nil},
           procs |-> {1}, times |-> {0}, ops |-> {"set", "invalidate"},
           users |-> {}, requests |-> {}, mutations |-> {}]}
    \* two tasks at a time
    \cup {[types |-> {"analytics"}, calls |-> {Overview, Bare}, payloads |-> {Total42},
           patterns |-> {Nil}, procs |-> CacheProc, times |-> {0}, ops |-> {"set", "invalidate"},
           users |-> {}, requests |-> {}, mutations |-> {}]}
    \* requests of every kind of user through the middleware
    \cup {[types |-> {}, calls |-> {}, payloads |-> {Total42}, patterns |-> {Nil},
           procs |-> {1}, times |-> {0}, ops |-> {"dispatch"},
           users |-> User, requests |-> Requests, mutations |-> {}]}
    \* cached reads and the handlers that change what they read
    \cup {[types |-> {"article_lists"}, calls |-> {Overview}, payloads |-> {Total42},
           patterns |-> {Nil}, procs |-> {1}, times |-> {0},
           ops |-> {"dispatch", "cached", "mutate"},
           users |-> {"admin"}, requests |-> {ArticlesRequest},
           mutations |-> {"delete_article_admin", "update_author_status_admin"}]}
    \* a cached function next to an invalidation
    \cup {[types |-> {"analytics"}, calls |-> {Overview}, payloads |-> {Total42},
           patterns |-> {Nil}, procs |-> CacheProc, times |-> {0},
           ops |-> {"get", "invalidate", "cached"},
           users |-> {}, requests |-> {}, mutations |-> {}]}

\* the rate limiter stays as constructed
LimiterIdle ==
    /\ redis_client = FALSE
    /\ local_fallback = EmptyMap
    /\ proc = [p \in Proc |-> IdleProc]
    /\ made = EmptyMap
    /\ allowed = EmptyMap
    /\ started = 0
    /\ scope = [clients |-> {}, tiers |-> {}, procs |-> {}, times |-> {}, warm |-> EmptyMap,
                via |-> "redis"]

CacheInit ==
    /\ load \in Loads
    /\ now = 0
    /\ storeUp = TRUE
    /\ store = EmptyMap
    /\ CacheIdle
    /\ LimiterIdle
    /\ AppIdle

(* ---------------------------------------------------------------------- *)
(* CacheManager and the cached decorator                                   *)
(* ---------------------------------------------------------------------- *)

\* the invalidate calls for cache_type that have returned after deleting
\* what the store listed
InvalidatedOf(cache_type) ==
    IF cache_type \in CacheType THEN hist.invalidated[cache_type] ELSE 0

\* the mutations made so far to the data cached under cache_type
VersionOf(cache_type) ==
    IF cache_type \in CacheType THEN hist.version[cache_type] ELSE 0

\* get returns value to its caller: the cached wrapper returns a value that
\* is not None and goes on to the wrapped function otherwise; dispatch
\* answers 200 with a value that is true and goes on to call_next otherwise
AfterGet(me, value, outcome) ==
    LET r == [me EXCEPT !.got = outcome, !.ret = value]
    IN  IF me.op = "cached" /\ value.t = "NoneType"
        THEN [r EXCEPT !.pc = "func", !.seen = InvalidatedOf(me.cache_type)]
        ELSE IF me.op = "dispatch"
        THEN IF PyTruthy(value) THEN [r EXCEPT !.pc = "done", !.status = 200]
             ELSE [r EXCEPT !.pc = "call_next", !.ret = PyNone]
        ELSE [r EXCEPT !.pc = "done"]

\* GetExcept letting the exception out
GetExceptReraise(me) == [me EXCEPT !.got = "error", !.raised = TRUE, !.pc = "done"]

\* get, lines 144-146: except Exception: return None
GetExcept(me) == AfterGet(me, PyNone, "error")

\* get, lines 125-133: up to the call of the store
EnterGet(me, cache_type, key_suffix, kwargs) ==
    LET cache_key == CacheKey(cache_type, key_suffix, kwargs)
    IN  IF ~cache_client THEN AfterGet(me, PyNone, "no_client")
        ELSE IF Raised(cache_key) THEN GetExcept(me)
        ELSE [me EXCEPT !.pc = "get", !.cache_key = cache_key,
                        !.epoch = InvalidatedOf(cache_type),
                        !.called = VersionOf(cache_type)]

\* set returns: the cached wrapper returns the result of the wrapped
\* function, dispatch the response of call_next
AfterSet(me, outcome) ==
    [me EXCEPT !.put = outcome, !.pc = "done",
               !.ret = IF me.op \in {"cached", "dispatch"} THEN me.data ELSE PyNone]

\* set, lines 171-172: except Exception
SetExcept(me) == AfterSet(me, "error")

\* set, lines 150-166: up to the call of the store
EnterSet(me, cache_type, data, key_suffix, kwargs) ==
    LET cache_key       == CacheKey(cache_type, key_suffix, kwargs)
        serialized_data == JsonDumps(data, FALSE, TRUE)
        mine            == [me EXCEPT !.data = data]
    IN  IF ~cache_client THEN AfterSet(mine, "no_client")
        ELSE IF ~HasConfig(cache_type) THEN AfterSet(mine, "no_config")
        ELSE IF Raised(cache_key) \/ Raised(serialized_data) THEN SetExcept(mine)
        ELSE [mine EXCEPT !.pc = "set", !.cache_key = cache_key, !.text = serialized_data]

\* invalidate returns, the store being s
AfterInvalidate(me, outcome, s) ==
    [me EXCEPT !.inv = outcome, !.pc = "done", !.after = DOMAIN s]

\* invalidate, lines 200-201: except Exception
InvalidateExcept(me, s) == AfterInvalidate(me, "error", s)

\* invalidate, lines 176-190: up to the call of the store
EnterInvalidate(me, cache_type, pattern, s) ==
    IF ~cache_client THEN AfterInvalidate(me, "no_client", s)
    ELSE IF ~HasConfig(cache_type) THEN AfterInvalidate(me, "no_config", s)
    ELSE LET invalidation_pattern == InvalidationPattern(cache_type, pattern)
         IN  IF ~Truthy(invalidation_pattern) THEN AfterInvalidate(me, "no_pattern", s)
             ELSE [me EXCEPT !.pc = "keys", !.invalidation_pattern = invalidation_pattern]

\* one more invalidate(cache_type) returned after deleting what the store
\* listed
Returned(h, cache_type) == [h EXCEPT !.invalidated[cache_type] = @ + 1]

\* task p may start an operation
Free(p) ==
    /\ task[p].pc \in {"idle", "done"}
    /\ p \in load.procs
    /\ hist.ops < MaxOps

\* one more operation started; one more get returned if after shows one
Count(before, after) ==
    [hist EXCEPT !.ops = @ + (IF before.pc \in {"idle", "done"} THEN 1 ELSE 0),
                 !.gets = @ + (IF after.got # "" /\ before.got = "" THEN 1 ELSE 0)]

\* CacheManager.initialize at startup
Initialize ==
    /\ ~hist.inited
    /\ cache_client' = storeUp
    /\ hist' = [hist EXCEPT !.inited = TRUE]
    /\ UNCHANGED <<now, storeUp, store, stats, task, written, load>>
    /\ UNCHANGED limiterVars
    /\ UNCHANGED appVars

\* await cache_manager.get(cache_type, key_suffix, **kwargs)
Get(p, cache_type, call) ==
    LET me == [IdleTask EXCEPT !.op = "get", !.cache_type = cache_type,
                               !.key_suffix = call.key_suffix, !.kwargs = call.kwargs]
    IN  /\ Free(p)
        /\ "get" \in load.ops /\ cache_type \in load.types /\ call \in load.calls
        /\ task' = [task EXCEPT ![p] = EnterGet(me, cache_type, call.key_suffix, call.kwargs)]
        /\ hist' = Count(task[p], task'[p])
        /\ UNCHANGED <<now, storeUp, store, cache_client, stats, written, load>>
        /\ UNCHANGED limiterVars
        /\ UNCHANGED appVars

\* await cache_manager.set(cache_type, data, key_suffix, **kwargs)
Set(p, cache_type, data, call) ==
    LET me == [IdleTask EXCEPT !.op = "set", !.cache_type = cache_type,
                               !.key_suffix = call.key_suffix, !.kwargs = call.kwargs]
    IN  /\ Free(p)
        /\ "set" \in load.ops /\ cache_type \in load.types /\ call \in load.calls
        /\ data \in load.payloads
        /\ task' = [task EXCEPT ![p] = EnterSet(me, cache_type, data, call.key_suffix, call.kwargs)]
        /\ hist' = Count(task[p], task'[p])
        /\ UNCHANGED <<now, storeUp, store, cache_client, stats, written, load>>
        /\ UNCHANGED limiterVars
        /\ UNCHANGED appVars

\* await cache_manager.invalidate(cache_type, pattern)
Invalidate(p, cache_type, pattern) ==
    LET me == [IdleTask EXCEPT !.op = "invalidate", !.cache_type = cache_type,
                               !.pattern = pattern, !.before = DOMAIN store]
    IN  /\ Free(p)
        /\ "invalidate" \in load.ops /\ cache_type \in load.types /\ pattern \in load.patterns
        /\ task' = [task EXCEPT ![p] = EnterInvalidate(me, cache_type, pattern, store)]
        /\ hist' = Count(task[p], task'[p])
        /\ UNCHANGED <<now, storeUp, store, cache_client, stats, written, load>>
        /\ UNCHANGED limiterVars
        /\ UNCHANGED appVars

\* a function wrapped by cached(cache_type, key_suffix) is called without
\* arguments: the wrapper looks the result up first
Cached(p, cache_type, call) ==
    LET me == [IdleTask EXCEPT !.op = "cached", !.cache_type = cache_type,
                               !.key_suffix = call.key_suffix]
    IN  /\ Free(p)
        /\ "cached" \in load.ops /\ cache_type \in load.types /\ call \in load.calls
        /\ call.kwargs = <<>>
        /\ task' = [task EXCEPT ![p] = EnterGet(me, cache_type, call.key_suffix, <<>>)]
        /\ hist' = Count(task[p], task'[p])
        /\ UNCHANGED <<now, storeUp, store, cache_client, stats, written, load>>
        /\ UNCHANGED limiterVars
        /\ UNCHANGED appVars

\* PerformanceMiddleware.dispatch receives a request of user: a GET of an
\* endpoint it caches is looked up in the cache first, under a key made of
\* the path and the query; any other request goes to call_next
Dispatch(p, user, request) ==
    LET me == [IdleTask EXCEPT !.op = "dispatch", !.user = user,
                               !.path = request.path, !.query = request.query,
                               !.cache_type = DetermineCacheType(request.path),
                               !.key_suffix = RequestKey(request.path, request.query)]
    IN  /\ Free(p)
        /\ "dispatch" \in load.ops /\ user \in load.users /\ request \in load.requests
        /\ task' = [task EXCEPT ![p] =
                IF request.method = "GET" /\ request.path \in CacheEnabledEndpoints
                THEN EnterGet(me, me.cache_type, me.key_suffix, <<>>)
                ELSE [me EXCEPT !.pc = "call_next"]]
        /\ hist' = Count(task[p], task'[p])
        /\ UNCHANGED <<now, storeUp, store, cache_client, stats, written, load>>
        /\ UNCHANGED limiterVars
        /\ UNCHANGED appVars

\* response = await call_next(request) returns: the route answers with data
\* when require_global_admin lets the user in and with 401 or 403 otherwise.
\* A response with status 200 of an endpoint the middleware caches is
\* stored when it has a body attribute, which the response class of the
\* framework decides.
CallNext(p, data, has_body) ==
    LET me            == task[p]
        status_code   == RequireGlobalAdmin(me.user)
        body          == JsonDumps(data, FALSE, TRUE)
        response_data == JsonLoads(body)
        response      == [me EXCEPT !.status = status_code, !.data = data]
    IN  /\ me.pc = "call_next"
        /\ data \in load.payloads
        /\ ~Raised(body)
        /\ task' = [task EXCEPT ![p] =
                IF status_code # 200
                THEN [response EXCEPT !.pc = "done", !.data = PyNone]
                ELSE IF /\ me.path \in CacheEnabledEndpoints
                        /\ has_body
                        /\ response_data.ok
                THEN EnterSet(response, me.cache_type, response_data.v, me.key_suffix, <<>>)
                ELSE [response EXCEPT !.pc = "done", !.ret = data]]
        /\ UNCHANGED <<now, storeUp, store, cache_client, stats, written, hist, load>>
        /\ UNCHANGED limiterVars
        /\ UNCHANGED appVars

\* a mutating handler of admin_api.py commits its change and returns: it
\* calls no function of utils.cache, so the cache stays as it is while the
\* data behind the cache types of the hook written for it is new
Mutate(operation) ==
    /\ "mutate" \in load.ops /\ operation \in load.mutations
    /\ hist.ops < MaxOps
    /\ hist' = [hist EXCEPT !.ops = @ + 1,
                            !.version = [t \in CacheType |->
                                IF t \in HookTypes(HookFor(operation)) THEN @[t] + 1 ELSE @[t]]]
    /\ UNCHANGED <<now, storeUp, store, cache_client, stats, task, written, load>>
    /\ UNCHANGED limiterVars
    /\ UNCHANGED appVars

\* the data of the last set of key if it was made at this very time and the
\* entry is still in the store
Expected(key) ==
    IF key \in DOMAIN store /\ key \in DOMAIN written /\ written[key].at = now
    THEN [some |-> TRUE, v |-> written[key].data]
    ELSE Nothing

\* result = await redis_service.get(cache_key) returns; lines 135-142
GetReply(p) ==
    LET me      == task[p]
        result  == StoreGet(store, me.cache_key)
        seen    == [me EXCEPT !.expect = Expected(me.cache_key),
                              !.age = IF me.cache_key \in DOMAIN written
                                      THEN now - written[me.cache_key].at ELSE -1,
                              !.stale = /\ me.cache_key \in DOMAIN store
                                        /\ me.cache_key \in DOMAIN written
                                        /\ written[me.cache_key].seen >= 0
                                        /\ written[me.cache_key].seen < me.epoch,
                              !.outdated = /\ me.cache_key \in DOMAIN store
                                           /\ me.cache_key \in DOMAIN written
                                           /\ written[me.cache_key].version < me.called]
        hit     == [seen EXCEPT !.counted.hits = @ + 1]
        miss    == [seen EXCEPT !.counted.misses = @ + 1]
    IN  /\ me.pc = "get"
        /\ storeUp
        /\ IF Truthy(result)
           THEN /\ stats' = [stats EXCEPT !.hits = @ + 1]
                /\ task' = [task EXCEPT ![p] =
                        IF JsonLoads(result).ok THEN AfterGet(hit, JsonLoads(result).v, "hit")
                        ELSE GetExcept(hit)]
           ELSE /\ stats' = [stats EXCEPT !.misses = @ + 1]
                /\ task' = [task EXCEPT ![p] = AfterGet(miss, PyNone, "miss")]
        /\ hist' = Count(task[p], task'[p])
        /\ UNCHANGED <<now, storeUp, store, cache_client, written, load>>
        /\ UNCHANGED limiterVars
        /\ UNCHANGED appVars

\* the wrapped function returns its result; the wrapper stores it
Func(p, result) ==
    LET me == task[p]
    IN  /\ me.pc = "func"
        /\ result \in load.payloads
        /\ task' = [task EXCEPT ![p] =
                EnterSet(me, me.cache_type, result, me.key_suffix, me.kwargs)]
        /\ UNCHANGED <<now, storeUp, store, cache_client, stats, written, hist, load>>
        /\ UNCHANGED limiterVars
        /\ UNCHANGED appVars

\* await redis_service.set(cache_key, serialized_data, ex=config.ttl_seconds)
\* returns; line 168
SetReply(p) ==
    LET me == task[p]
    IN  /\ me.pc = "set"
        /\ storeUp
        /\ store' = StoreSet(store, me.cache_key, me.text, SetEx(me.cache_type), now)
        /\ stats' = [stats EXCEPT !.sets = @ + 1]
        /\ written' = (me.cache_key :> [cache_type |-> me.cache_type, key_suffix |-> me.key_suffix,
                                         kwargs |-> me.kwargs, data |-> me.data, at |-> now,
                                         seen |-> me.seen,
                                         version |-> VersionOf(me.cache_type)])
                        @@ written
        /\ task' = [task EXCEPT ![p] =
                AfterSet([me EXCEPT !.counted.sets = @ + 1, !.wrote = @ \cup {me.cache_key}], "ok")]
        /\ UNCHANGED <<now, storeUp, cache_client, hist, load>>
        /\ UNCHANGED limiterVars
        /\ UNCHANGED appVars

\* keys = await redis_service.keys(f"cache:{invalidation_pattern}") returns
KeysReply(p) ==
    LET me       == task[p]
        matching == StoreKeysMatching(store, Chars("cache:") \o me.invalidation_pattern)
    IN  /\ me.pc = "keys"
        /\ storeUp
        /\ \E keys \in Orderings(matching) :
            task' = [task EXCEPT ![p] =
                IF Len(keys) = 0 THEN AfterInvalidate(me, "ok", store)
                ELSE [me EXCEPT !.pc = "delete", !.keys = keys, !.found = Len(keys)]]
        /\ hist' = IF matching = {} THEN Returned(hist, me.cache_type) ELSE hist
        /\ UNCHANGED <<now, storeUp, store, cache_client, stats, written, load>>
        /\ UNCHANGED limiterVars
        /\ UNCHANGED appVars

\* await redis_service.delete(key) returns for the next key; after the last
\* one, line 197
DeleteReply(p) ==
    LET me      == task[p]
        key     == Head(me.keys)
        after   == StoreDelete(store, key)
        gone    == IF key \in DOMAIN store THEN {key} ELSE {}
        deleted == [me EXCEPT !.keys = Tail(me.keys), !.deleted = @ \cup gone]
    IN  /\ me.pc = "delete"
        /\ storeUp
        /\ store' = after
        /\ hist' = [(IF Len(me.keys) = 1 THEN Returned(hist, me.cache_type) ELSE hist)
                        EXCEPT !.removed = @ + Cardinality(gone)]
        /\ IF Len(me.keys) = 1
           THEN /\ stats' = [stats EXCEPT !.invalidations = @ + me.found]
                /\ task' = [task EXCEPT ![p] =
                        AfterInvalidate([deleted EXCEPT !.counted.invalidations = @ + me.found],
                                        "ok", after)]
           ELSE /\ task' = [task EXCEPT ![p] = deleted]
                /\ UNCHANGED stats
        /\ UNCHANGED <<now, storeUp, cache_client, written, load>>
        /\ UNCHANGED limiterVars
        /\ UNCHANGED appVars

\* the awaited call of the store raises: the except clause of the method
StoreRaises(p) ==
    LET me == task[p]
    IN  /\ me.pc \in {"get", "set", "keys", "delete"}
        /\ ~storeUp
        /\ task' = [task EXCEPT ![p] =
                CASE me.pc = "get" -> GetExcept(me)
                  [] me.pc = "set" -> SetExcept(me)
                  [] OTHER         -> InvalidateExcept(me, store)]
        /\ hist' = Count(task[p], task'[p])
        /\ UNCHANGED <<now, storeUp, store, cache_client, stats, written, load>>
        /\ UNCHANGED limiterVars
        /\ UNCHANGED appVars

\* time passes; the store drops the entries whose expiry has come
Elapse ==
    /\ \E t \in load.times :
        /\ t > now
        /\ now' = t
        /\ store' = StoreAt(store, t)
    /\ UNCHANGED <<storeUp, cache_client, stats, task, written, hist, load>>
    /\ UNCHANGED limiterVars
    /\ UNCHANGED appVars

CacheNext ==
    \/ Initialize
    \/ \E p \in CacheProc, t \in CacheType \cup {"custom"}, call \in load.calls : Get(p, t, call)
    \/ \E p \in CacheProc, t \in CacheType \cup {"custom"}, call \in load.calls :
            \E data \in load.payloads : Set(p, t, data, call)
    \/ \E p \in CacheProc, t \in CacheType \cup {"custom"} :
            \E pattern \in load.patterns : Invalidate(p, t, pattern)
    \/ \E p \in CacheProc, t \in CacheType \cup {"custom"}, call \in load.calls : Cached(p, t, call)
    \/ \E p \in CacheProc, user \in User, request \in Requests : Dispatch(p, user, request)
    \/ \E p \in CacheProc : \E data \in load.payloads, has_body \in BOOLEAN :
            CallNext(p, data, has_body)
    \/ \E operation \in MutatingOperation : Mutate(operation)
    \/ \E p \in CacheProc : GetReply(p)
    \/ \E p \in CacheProc : \E result \in load.payloads : Func(p, result)
    \/ \E p \in CacheProc : SetReply(p)
    \/ \E p \in CacheProc : KeysReply(p)
    \/ \E p \in CacheProc : DeleteReply(p)
    \/ \E p \in CacheProc : StoreRaises(p)
    \/ Elapse
    \/ StoreDown
    \/ StoreRecover

CacheSpec == CacheInit /\ [][CacheNext]_vars

(* ---------------------------------------------------------------------- *)
(* Author applications: submission, approval, rejection, review            *)
(* ---------------------------------------------------------------------- *)

\* the requests about applications started in one behaviour
MaxRequests == 3

\* the users who apply
Applicant == {"u1", "u2"}

\* the global admin whose request task p handles
AdminOf(p) == IF p = 1 THEN "admin1" ELSE "admin2"

\* str.lstrip() of blanks
RECURSIVE LStrip(_)
LStrip(s) == IF Len(s) > 0 /\ Head(s) = " " THEN LStrip(Tail(s)) ELSE s

\* str.strip()
Strip(s) == Reversed(LStrip(Reversed(LStrip(s))))

\* review_notes of a request: blank, and with text around blanks
ReviewNotes == {<<" ">>, <<" ">> \o Chars("ok")}

\* a row of author_applications
Row(user_id, status) ==
    [user_id |-> user_id, status |-> status, reviewed_by |-> "", review_notes |-> <<>>]

\* the handlers, the rows and the schema of a behaviour: submissions with
\* and without a unique constraint on user_id in the database, two admins
\* deciding on a pending application, one admin after another on an
\* application in each status
Plans ==
    {[handlers |-> {"submit_application"}, rows |-> <<>>, unique_user_id |-> u,
      procs |-> AppProc] : u \in BOOLEAN}
    \cup {[handlers |-> {"approve_application_admin", "reject_application_admin"},
           rows |-> <<Row("u1", "pending")>>, unique_user_id |-> FALSE, procs |-> AppProc]}
    \cup {[handlers |-> {"approve_application_admin", "reject_application_admin",
                         "review_application_admin"},
           rows |-> <<Row("u1", st)>>, unique_user_id |-> FALSE, procs |-> {1}] :
            st \in {"pending", "approved", "rejected", "requires_changes"}}

AppInit ==
    /\ plan \in Plans
    /\ author_applications = plan.rows
    /\ audit_logs = <<>>
    /\ outbox = <<>>
    /\ handling = [p \in AppProc |-> IdleCall]
    /\ handled = 0
    /\ now = 0
    /\ storeUp = TRUE
    /\ store = EmptyMap
    /\ CacheIdle
    /\ load = NoLoad
    /\ LimiterIdle

\* the ids of the rows of user_id
RowsOf(user_id) ==
    {i \in 1..Len(author_applications) : author_applications[i].user_id = user_id}

\* task p may take a request
AppFree(p) ==
    /\ handling[p].pc \in {"idle", "done"}
    /\ p \in plan.procs
    /\ handled < MaxRequests

\* raise HTTPException(status_code, detail)
Fail(me, status_code, detail) ==
    [me EXCEPT !.pc = "done", !.status_code = status_code, !.detail = detail]

\* the handler leaves the other components alone
AppFrame ==
    /\ UNCHANGED <<now, storeUp, store, plan>>
    /\ UNCHANGED limiterVars
    /\ UNCHANGED cacheVars

\* submit_application is called for user_id and sends its select
SubmitApplication(p, user_id) ==
    /\ AppFree(p)
    /\ "submit_application" \in plan.handlers
    /\ handling' = [handling EXCEPT ![p] =
            [IdleCall EXCEPT !.pc = "existing", !.handler = "submit_application",
                             !.user_id = user_id]]
    /\ handled' = handled + 1
    /\ UNCHANGED <<author_applications, audit_logs, outbox>>
    /\ AppFrame

\* the select of the rows of the user returns: 409 if there is one
SelectExisting(p) ==
    LET me == handling[p]
    IN  /\ me.pc = "existing"
        /\ handling' = [handling EXCEPT ![p] =
                IF RowsOf(me.user_id) # {}
                THEN Fail([me EXCEPT !.existing = TRUE], 409, "Application already exists")
                ELSE [me EXCEPT !.pc = "rpc"]]
        /\ UNCHANGED <<author_applications, audit_logs, outbox, handled>>
        /\ AppFrame

\* the call of the database function submit_author_application returns: it
\* inserts a pending row, unless the schema has a unique constraint on
\* user_id and the user has a row by now; then it raises and the handler
\* answers 500.  The confirmation is handed to the email service after the
\* insert.
SubmitRpc(p) ==
    LET me       == handling[p]
        existing == RowsOf(me.user_id) # {}
        mine     == [me EXCEPT !.existing = existing]
    IN  /\ me.pc = "rpc"
        /\ IF existing /\ plan.unique_user_id
           THEN /\ handling' = [handling EXCEPT ![p] =
                        Fail(mine, 500, "Failed to submit application due to an unexpected error")]
                /\ UNCHANGED <<author_applications, outbox>>
           ELSE /\ author_applications' = Append(author_applications, Row(me.user_id, "pending"))
                /\ outbox' = Append(outbox, [to |-> me.user_id, status |-> "submitted"])
                /\ handling' = [handling EXCEPT ![p] =
                        [mine EXCEPT !.pc = "done", !.status_code = 201,
                                     !.application_id = Len(author_applications) + 1]]
        /\ UNCHANGED <<audit_logs, handled>>
        /\ AppFrame

\* approve_application_admin and reject_application_admin up to the select:
\* review_notes must hold more than blanks
EnterDecision(p, handler, application_id, review_notes) ==
    LET me == [IdleCall EXCEPT !.handler = handler, !.user_id = AdminOf(p),
                               !.application_id = application_id,
                               !.review_notes = review_notes]
    IN  IF Len(review_notes) = 0 \/ Len(Strip(review_notes)) = 0
        THEN Fail(me, 400, "review_notes field is mandatory")
        ELSE [me EXCEPT !.pc = "select"]

ApproveApplicationAdmin(p, application_id, review_notes) ==
    /\ AppFree(p)
    /\ "approve_application_admin" \in plan.handlers
    /\ handling' = [handling EXCEPT ![p] =
            EnterDecision(p, "approve_application_admin", application_id, review_notes)]
    /\ handled' = handled + 1
    /\ UNCHANGED <<author_applications, audit_logs, outbox>>
    /\ AppFrame

RejectApplicationAdmin(p, application_id, review_notes) ==
    /\ AppFree(p)
    /\ "reject_application_admin" \in plan.handlers
    /\ handling' = [handling EXCEPT ![p] =
            EnterDecision(p, "reject_application_admin", application_id, review_notes)]
    /\ handled' = handled + 1
    /\ UNCHANGED <<author_applications, audit_logs, outbox>>
    /\ AppFrame

\* review_application_admin is called with one of its three actions and
\* sends its select
ReviewApplicationAdmin(p, application_id, action, review_notes) ==
    /\ AppFree(p)
    /\ "review_application_admin" \in plan.handlers
    /\ handling' = [handling EXCEPT ![p] =
            [IdleCall EXCEPT !.pc = "select", !.handler = "review_application_admin",
                             !.user_id = AdminOf(p), !.application_id = application_id,
                             !.action = action, !.review_notes = review_notes]]
    /\ handled' = handled + 1
    /\ UNCHANGED <<author_applications, audit_logs, outbox>>
    /\ AppFrame

\* HTTPException(400) of approve and reject for a processed application
AlreadyProcessed(status) ==
    IF status = "approved" THEN "Application has already been approved"
    ELSE "Application has already been rejected"

\* the select of the application returns: 404 without a row; approve and
\* reject answer 400 for a row that is approved or rejected, review goes on
\* whatever the status
SelectApplication(p) ==
    LET me == handling[p]
    IN  /\ me.pc = "select"
        /\ handling' = [handling EXCEPT ![p] =
                IF me.application_id \notin 1..Len(author_applications)
                THEN Fail(me, 404, "Application not found")
                ELSE LET application == author_applications[me.application_id]
                     IN  IF /\ me.handler # "review_application_admin"
                            /\ application.status \in {"approved", "rejected"}
                         THEN Fail([me EXCEPT !.application = application], 400,
                                   AlreadyProcessed(application.status))
                         ELSE [me EXCEPT !.pc = "update", !.application = application]]
        /\ UNCHANGED <<author_applications, audit_logs, outbox, handled>>
        /\ AppFrame

\* the status a handler writes
NewStatus(me) ==
    CASE me.handler = "approve_application_admin" -> "approved"
      [] me.handler = "reject_application_admin"  -> "rejected"
      [] me.action = "approve"                    -> "approved"
      [] me.action = "reject"                     -> "rejected"
      [] OTHER                                    -> "requires_changes"

\* the update of the row returns, whatever the row holds by now; the
\* notification is handed to the email service before the next await
UpdateApplication(p) ==
    LET me  == handling[p]
        row == author_applications[me.application_id]
    IN  /\ me.pc = "update"
        /\ author_applications' = [author_applications EXCEPT ![me.application_id] =
                [row EXCEPT !.status = NewStatus(me), !.reviewed_by = me.user_id,
                            !.review_notes = IF me.handler = "review_application_admin"
                                             THEN me.review_notes ELSE Strip(me.review_notes)]]
        /\ outbox' = Append(outbox, [to |-> me.application.user_id, status |-> NewStatus(me)])
        /\ handling' = [handling EXCEPT ![p] = [me EXCEPT !.pc = "audit", !.replaced = row.status]]
        /\ UNCHANGED <<audit_logs, handled>>
        /\ AppFrame

\* the insert into audit_logs returns and the handler answers 200
InsertAuditLog(p) ==
    LET me == handling[p]
    IN  /\ me.pc = "audit"
        /\ audit_logs' = Append(audit_logs, [action_by_user_id |-> me.user_id,
                                             action_type |-> NewStatus(me),
                                             target_entity_id |-> me.application_id])
        /\ handling' = [handling EXCEPT ![p] = [me EXCEPT !.pc = "done", !.status_code = 200]]
        /\ UNCHANGED <<author_applications, outbox, handled>>
        /\ AppFrame

AppNext ==
    \/ \E p \in AppProc, user_id \in Applicant : SubmitApplication(p, user_id)
    \/ \E p \in AppProc : SelectExisting(p)
    \/ \E p \in AppProc : SubmitRpc(p)
    \/ \E p \in AppProc, application_id \in 1..2, review_notes \in ReviewNotes :
            ApproveApplicationAdmin(p, application_id, review_notes)
    \/ \E p \in AppProc, application_id \in 1..2, review_notes \in ReviewNotes :
            RejectApplicationAdmin(p, application_id, review_notes)
    \/ \E p \in AppProc, application_id \in 1..2, review_notes \in ReviewNotes :
            \E action \in {"approve", "reject", "request_changes"} :
                ReviewApplicationAdmin(p, application_id, action, review_notes)
    \/ \E p \in AppProc : SelectApplication(p)
    \/ \E p \in AppProc : UpdateApplication(p)
    \/ \E p \in AppProc : InsertAuditLog(p)

AppSpec == AppInit /\ [][AppNext]_vars

(* ---------------------------------------------------------------------- *)
(* Properties                                                              *)
(* ---------------------------------------------------------------------- *)

Done(p) == proc[p].pc = "done"

ConfigOf(p) == RATE_LIMIT_CONFIGS[proc[p].tier]

\* the entries of p's results whose count is above the configured limit
Over(p) ==
    {i \in 1..Len(proc[p].results) :
        proc[p].results[i].count > LimitOf(ConfigOf(p), proc[p].results[i].window)}

\* p's results hold one entry per configured window, in the order minute, hour, day
AllWindows(p) ==
    /\ Len(proc[p].results) = Cardinality(Configured(proc[p].tier))
    /\ \A i \in 1..Len(proc[p].results) : proc[p].results[i].window \in Configured(proc[p].tier)
    /\ \A i, j \in 1..Len(proc[p].results) :
        i < j => \E a, b \in 1..3 : /\ a < b
                                    /\ Windows[a] = proc[p].results[i].window
                                    /\ Windows[b] = proc[p].results[j].window

\* the rejection p returned carries the window, limit and count of entry i
Carries(p, i) ==
    /\ proc[p].ret.exceeded
    /\ proc[p].ret.window = proc[p].results[i].window
    /\ proc[p].ret.limit = LimitOf(ConfigOf(p), proc[p].results[i].window)
    /\ proc[p].ret.count = proc[p].results[i].count

\* C1 as stated: a call all of whose store round trips succeeded and that
\* brought the counter of some window to limit + 1 returns a rejection that
\* carries that window, its limit and the count limit + 1; a call that
\* brought no counter above its limit returns None.
C1_AsStated ==
    \A p \in Proc : (Done(p) /\ proc[p].mode = "redis") =>
        /\ \A i \in 1..Len(proc[p].results) :
            proc[p].results[i].count = LimitOf(ConfigOf(p), proc[p].results[i].window) + 1
                => Carries(p, i)
        /\ Over(p) = {} => ~proc[p].ret.exceeded

\* C1 amended: a call all of whose store round trips succeeded counts every
\* configured window; if it brought the counter of a window to limit + 1 it
\* returns a rejection (never None), which carries that window, its limit
\* and the count limit + 1 unless an earlier window in the order minute,
\* hour, day is exceeded by the same call; a call that brought no counter
\* above its limit returns None.
C1_StoreLimit ==
    \A p \in Proc : (Done(p) /\ proc[p].mode = "redis") =>
        /\ AllWindows(p)
        /\ \A i \in 1..Len(proc[p].results) :
            proc[p].results[i].count = LimitOf(ConfigOf(p), proc[p].results[i].window) + 1
                => /\ proc[p].ret.exceeded
                   /\ (\A j \in 1..(i - 1) : j \notin Over(p)) => Carries(p, i)
        /\ Over(p) = {} => ~proc[p].ret.exceeded

\* admin_actions: the call that is the 11th of its minute is rejected with
\* window = minute, limit = 10, count = 11
C1_Witness ==
    \E p \in Proc :
        /\ Done(p) /\ proc[p].mode = "redis" /\ proc[p].tier = "admin_actions"
        /\ proc[p].ret.exceeded
        /\ proc[p].ret.window = "minute" /\ proc[p].ret.limit = 10 /\ proc[p].ret.count = 11

MinuteOnly(t) == Configured(t) = {"minute"}

\* C2: under a tier whose only limit is per minute, a call that is the only
\* one its client has made so far in its minute bucket observes the count 1
\* and returns None, whatever was counted in earlier buckets, whether the
\* store or the local fallback counted it.
C2_FreshBucket ==
    \A p \in Proc : (Done(p) /\ MinuteOnly(proc[p].tier)) =>
        /\ Len(proc[p].results) = 1
        /\ MadeIn(proc[p].client, proc[p].tier, "minute", proc[p].results[1].bucket) = 1
            => /\ proc[p].results[1].count = 1
               /\ ~proc[p].ret.exceeded

\* a call counted by the store is alone in its bucket and allowed after the
\* limit was exceeded in an earlier bucket
C2_Witness ==
    \E p \in Proc :
        /\ Done(p) /\ MinuteOnly(proc[p].tier) /\ proc[p].mode = "redis"
        /\ proc[p].results[1].bucket > 0
        /\ MadeIn(proc[p].client, proc[p].tier, "minute", proc[p].results[1].bucket) = 1
        /\ proc[p].results[1].count = 1
        /\ ~proc[p].ret.exceeded
        /\ MadeIn(proc[p].client, proc[p].tier, "minute", 0)
                > RATE_LIMIT_CONFIGS[proc[p].tier].requests_per_minute

\* the task that takes the step, if a task does
Steps(p) == proc'[p] # proc[p]

StoreKeys == DOMAIN store \cup DOMAIN store'

\* C3: a step of a call made by one client changes no store counter and no
\* fallback counter of any other client.
C3_ClientIsolation ==
    [][\A p \in Proc : Steps(p) =>
          /\ \A k \in StoreKeys :
                k[3] # proc'[p].client => CounterOf(store', k) = CounterOf(store, k)
          /\ \A c \in Client \ {proc'[p].client} :
                ClientData(local_fallback', c) = ClientData(local_fallback, c)]_vars

\* one client is rejected on its 6th call of the minute under billing while
\* the 5th call of the other client is allowed
C3_Witness ==
    \E p, q \in Proc :
        /\ Done(p) /\ Done(q) /\ proc[p].client # proc[q].client
        /\ proc[p].tier = "billing" /\ proc[q].tier = "billing"
        /\ proc[p].ret.exceeded /\ proc[p].ret.count = 6
        /\ ~proc[q].ret.exceeded /\ proc[q].results[1].count = 5

WindowNames == {"minute", "hour", "day"}

\* C5 as stated: every finished call incremented the counters of each
\* configured window (in the store, and for the minute in the fallback
\* dictionary) by exactly 1 in total.
C5_AsStated ==
    \A p \in Proc : Done(p) =>
        \A w \in Configured(proc[p].tier) :
            proc[p].bumps[w] + (IF w = "minute" THEN proc[p].bumps.local ELSE 0) = 1

\* C5 amended: a call during which no store operation fails increments the
\* store counter of each configured window by exactly 1 and nothing else,
\* whether it returns None or a rejection; a call served by the local
\* fallback increments the fallback minute counter by exactly 1 when the tier
\* has a per-minute limit, counts nothing for hour and day there, and leaves
\* each store counter incremented by the 0 or 1 it added before the failure.
C5_Counting ==
    \A p \in Proc : Done(p) =>
        /\ proc[p].mode = "redis" =>
            /\ \A w \in WindowNames :
                proc[p].bumps[w] = IF w \in Configured(proc[p].tier) THEN 1 ELSE 0
            /\ proc[p].bumps.local = 0
        /\ proc[p].mode = "local" =>
            /\ proc[p].bumps.local = IF "minute" \in Configured(proc[p].tier) THEN 1 ELSE 0
            /\ \A w \in WindowNames :
                /\ proc[p].bumps[w] \in {0, 1}
                /\ w \notin Configured(proc[p].tier) => proc[p].bumps[w] = 0

\* the call that exceeds the minute limit of admin_actions has counted the
\* minute and the hour once each
C5_Witness ==
    \E p \in Proc :
        /\ Done(p) /\ proc[p].mode = "redis" /\ proc[p].tier = "admin_actions"
        /\ proc[p].ret.exceeded /\ proc[p].ret.count = 11
        /\ proc[p].bumps.minute = 1 /\ proc[p].bumps.hour = 1

\* a task of client c under tier t is between two store round trips, having
\* read the clock in minute bucket b
InFlight(c, t, b) ==
    \E p \in Proc : /\ proc[p].pc \in {"incr", "expire"}
                    /\ proc[p].client = c /\ proc[p].tier = t
                    /\ proc[p].current_time \div 60 = b

\* C6: while the store has counted none of the calls a client made under a
\* tier in the current minute, the fallback counter of that minute equals the
\* number of those calls; and a call served by the fallback under a tier with
\* requests_per_minute = N returns None when its count is at most N and a
\* rejection with window = minute, that count and limit N when it is above.
C6_Fallback ==
    /\ \A c \in Client, t \in Tier :
        ( /\ "minute" \in Configured(t)
          /\ GetKey(c, t, "minute", now) \notin DOMAIN store
          /\ ~InFlight(c, t, now \div 60) )
        => LocalCount(local_fallback, c, MinuteKey(t, now)) = MadeIn(c, t, "minute", now \div 60)
    /\ \A p \in Proc :
        (Done(p) /\ proc[p].mode = "local" /\ "minute" \in Configured(proc[p].tier)) =>
            LET n == ConfigOf(p).requests_per_minute
                e == proc[p].results[1]
            IN  /\ Len(proc[p].results) = 1
                /\ e.window = "minute"
                /\ e.count <= n => ~proc[p].ret.exceeded
                /\ e.count > n => /\ proc[p].ret.exceeded
                                  /\ proc[p].ret.window = "minute"
                                  /\ proc[p].ret.count = e.count
                                  /\ proc[p].ret.limit = n

\* billing with a store that counted nothing: the 6th call of the minute is
\* rejected with count 6
C6_Witness ==
    \E p \in Proc :
        /\ Done(p) /\ proc[p].mode = "local" /\ proc[p].tier = "billing"
        /\ store = EmptyMap
        /\ MadeIn(proc[p].client, "billing", "minute", proc[p].results[1].bucket) = 6
        /\ proc[p].ret.exceeded /\ proc[p].ret.window = "minute" /\ proc[p].ret.count = 6

\* C7: a call waiting for a store round trip can go on whether the round trip
\* succeeds or raises, and a call about to return can return; the dependency
\* raises only for a rejection, and a rejection names a window in whose
\* bucket the client made more calls under the tier than the window's limit.
C7_NoSpuriousRejection ==
    \A p \in Proc :
        /\ proc[p].pc \in {"incr", "expire"} => ENABLED (Incr(p) \/ Expire(p) \/ StoreFails(p))
        /\ proc[p].pc = "decide" => ENABLED Decide(p)
        /\ Done(p) =>
            /\ proc[p].resp.raised => proc[p].ret.exceeded
            /\ proc[p].ret.exceeded =>
                \E i \in 1..Len(proc[p].results) :
                    /\ proc[p].results[i].window = proc[p].ret.window
                    /\ proc[p].ret.window \in Configured(proc[p].tier)
                    /\ MadeIn(proc[p].client, proc[p].tier, proc[p].ret.window,
                              proc[p].results[i].bucket)
                            > LimitOf(ConfigOf(p), proc[p].ret.window)

\* a call whose minute was counted by the store before the store failed is
\* rejected by the fallback
C7_Witness ==
    \E p \in Proc :
        /\ Done(p) /\ proc[p].mode = "local" /\ proc[p].bumps.minute = 1
        /\ proc[p].ret.exceeded /\ proc[p].resp.raised

Rank(w) == CHOOSE i \in 1..3 : Windows[i] = w

\* C8: a rejection carries the window, count and limit of the exceeded window
\* that comes first in the order minute, hour, day, and the end of that
\* window's bucket as reset_time.
C8_Precedence ==
    \A p \in Proc : (Done(p) /\ Over(p) # {}) =>
        \E i \in Over(p) :
            /\ \A j \in Over(p) :
                Rank(proc[p].results[i].window) <= Rank(proc[p].results[j].window)
            /\ Carries(p, i)
            /\ proc[p].ret.reset_time
                = (proc[p].results[i].bucket + 1) * WindowLen(proc[p].results[i].window)

\* app_submission: hour and day are both exceeded and the rejection names the hour
C8_Witness ==
    \E p \in Proc :
        /\ Done(p) /\ Cardinality(Over(p)) >= 2
        /\ proc[p].ret.exceeded /\ proc[p].ret.window = "hour"

\* C9 as stated: a rejection has the end of the bucket whose counter was
\* incremented as reset_time, and a retry_after that is not negative.
C9_RetryAfter ==
    \A p \in Proc : (Done(p) /\ proc[p].ret.exceeded) =>
        /\ \E i \in 1..Len(proc[p].results) :
            /\ proc[p].results[i].window = proc[p].ret.window
            /\ proc[p].ret.reset_time
                = (proc[p].results[i].bucket + 1) * WindowLen(proc[p].ret.window)
        /\ proc[p].ret.retry_after >= 0

\* C10: the dependency returns True exactly when check_rate_limit returned
\* None; otherwise it raises with status 429, a Retry-After header that
\* denotes the rejection's retry_after and a detail with the error category,
\* the limit and the window; the protected handler runs only for a call that
\* was not rejected.
C10_Dependency ==
    \A p \in Proc : Done(p) =>
        /\ ~proc[p].resp.raised <=> ~proc[p].ret.exceeded
        /\ ~proc[p].resp.raised => proc[p].resp.value = TRUE
        /\ proc[p].resp.raised =>
            /\ proc[p].resp.status_code = 429
            /\ ParseInt(proc[p].resp.headers.RetryAfter) = proc[p].ret.retry_after
            /\ proc[p].resp.detail.error = "Rate limit exceeded"
            /\ proc[p].resp.detail.limit = proc[p].ret.limit
            /\ proc[p].resp.detail.window = proc[p].ret.window
        /\ proc[p].handled <=> ~proc[p].ret.exceeded

\* a rejected request: 429 is raised with the seconds left in the header and
\* the handler does not run
C10_Witness ==
    \E p \in Proc :
        /\ Done(p) /\ proc[p].ret.exceeded /\ proc[p].ret.retry_after > 9
        /\ proc[p].resp.raised /\ proc[p].resp.status_code = 429
        /\ ~proc[p].handled

\* the tasks of client c under tier t that read the clock in minute bucket b
\* and have not reached the store's incr of the minute key yet
Pending(c, t, b) ==
    {p \in Proc : /\ proc[p].pc = "incr" /\ proc[p].mode = "redis"
                  /\ Windows[proc[p].w] = "minute"
                  /\ proc[p].client = c /\ proc[p].tier = t
                  /\ proc[p].current_time \div 60 = b}

\* the tasks of client c under tier t to which the store has returned the
\* count of the minute key of bucket b
Counted(c, t, b) ==
    {p \in Proc : /\ proc[p].mode = "redis" /\ proc[p].client = c /\ proc[p].tier = t
                  /\ Len(proc[p].results) > 0
                  /\ proc[p].results[1].window = "minute"
                  /\ proc[p].results[1].bucket = b}

\* every call client c made under tier t in the current minute went to the
\* store and none of them was served by the fallback
StoreOnly(c, t) == LocalCount(local_fallback, c, MinuteKey(t, now)) = 0

\* no task holds anything another task waits for: a task between two store
\* round trips goes on as soon as the store answers, wherever the others are
NoLock ==
    \A p \in Proc : (proc[p].pc \in {"incr", "expire"} /\ storeUp) => ENABLED (Incr(p) \/ Expire(p))

\* the counts the store handed out for the current minute bucket are 1..K,
\* one per call, no two tasks holding the same one
Serialized ==
    \A c \in Client, t \in Tier : ("minute" \in Configured(t) /\ StoreOnly(c, t)) =>
        LET b == now \div 60
        IN  /\ CounterOf(store, GetKey(c, t, "minute", now)) + Cardinality(Pending(c, t, b))
                = MadeIn(c, t, "minute", b)
            /\ \A p \in Counted(c, t, b) :
                /\ proc[p].results[1].count \in 1..MadeIn(c, t, "minute", b)
                /\ \A q \in Counted(c, t, b) \ {p} :
                    proc[q].results[1].count # proc[p].results[1].count

\* C11 as stated: while a minute lasts and the store serves every call, the
\* K calls a client made under a tier with requests_per_minute = N observe
\* the distinct counts 1..K, a call returns None exactly when its count is at
\* most N (so min(K, N) of them do), and no task holds a lock while suspended.
C11_AsStated ==
    /\ Serialized
    /\ NoLock
    /\ \A c \in Client, t \in Tier : ("minute" \in Configured(t) /\ StoreOnly(c, t)) =>
        \A p \in Counted(c, t, now \div 60) : Done(p) =>
            (~proc[p].ret.exceeded
                <=> proc[p].results[1].count <= RATE_LIMIT_CONFIGS[t].requests_per_minute)

\* C11 amended: the same, a call returning None exactly when the count it
\* observed is at most the limit in every window the tier configures; under a
\* tier whose only limit is per minute that is when its count is at most N.
C11_Serialized ==
    /\ Serialized
    /\ NoLock
    /\ \A c \in Client, t \in Tier : ("minute" \in Configured(t) /\ StoreOnly(c, t)) =>
        \A p \in Counted(c, t, now \div 60) : Done(p) =>
            /\ ~proc[p].ret.exceeded <=> Over(p) = {}
            /\ MinuteOnly(t) =>
                (~proc[p].ret.exceeded
                    <=> proc[p].results[1].count <= RATE_LIMIT_CONFIGS[t].requests_per_minute)

\* billing, 4 calls counted: two tasks are both between the store's answer
\* and their return, one holding the count 5 and the other the count 6
C11_Witness ==
    \E p, q \in Proc :
        /\ proc[p].pc = "decide" /\ proc[q].pc = "decide"
        /\ proc[p].mode = "redis" /\ proc[q].mode = "redis"
        /\ proc[p].tier = "billing" /\ proc[q].tier = "billing"
        /\ proc[p].client = proc[q].client
        /\ StoreOnly(proc[p].client, "billing")
        /\ proc[p].results[1].bucket = now \div 60 /\ proc[q].results[1].bucket = now \div 60
        /\ proc[p].results[1].count = 5 /\ proc[q].results[1].count = 6

(* ---------------------------------------------------------------------- *)
(* Properties of the cache manager                                         *)
(* ---------------------------------------------------------------------- *)

Finished(p) == task[p].pc = "done"

\* the store answered the get of task p (a hit or a miss)
Answered(p) == task[p].got \in {"hit", "miss"}

RECURSIVE DatetimesAsStrings(_)
\* value with every datetime in it replaced by its string
DatetimesAsStrings(value) ==
    CASE value.t = "datetime" -> PyStr(DatetimeStr(value.v))
      [] value.t \in {"list", "tuple"} /\ Len(value.v) > 0 ->
            [t |-> value.t, v |-> [i \in 1..Len(value.v) |-> DatetimesAsStrings(value.v[i])]]
      [] value.t = "dict" /\ Len(value.v) > 0 ->
            PyDict([i \in 1..Len(value.v) |->
                        <<value.v[i][1], DatetimesAsStrings(value.v[i][2])>>])
      [] OTHER -> value

RECURSIVE DeepEqual(_, _)
\* a == b in Python: the same type and equal contents, the items of a dict
\* in any order
DeepEqual(a, b) ==
    /\ a.t = b.t
    /\ CASE a.t \in {"list", "tuple"} ->
                /\ Len(a.v) = Len(b.v)
                /\ \A i \in 1..Len(a.v) : DeepEqual(a.v[i], b.v[i])
         [] a.t = "dict" ->
                /\ Len(a.v) = Len(b.v)
                /\ \A i \in 1..Len(a.v) : \E j \in 1..Len(b.v) :
                        /\ a.v[i][1].t = b.v[j][1].t
                        /\ a.v[i][1].v = b.v[j][1].v
                        /\ DeepEqual(a.v[i][2], b.v[j][2])
         [] OTHER -> a.v = b.v

\* C12 as stated: a get that the store answers and that reads a key last
\* written by a set at this very time returns a value that is not None
\* (a hit) and is deep-equal to the data of that set, datetimes taken as
\* their strings.
C12_RoundTrip ==
    \A p \in CacheProc : (task[p].op = "get" /\ Finished(p) /\ Answered(p) /\ task[p].expect.some) =>
        /\ task[p].got = "hit"
        /\ task[p].ret.t # "NoneType"
        /\ DeepEqual(task[p].ret, DatetimesAsStrings(task[p].expect.v))

\* a and b pass the same suffix and the same keyword arguments, whatever
\* the order of the arguments and of the items of a dict among them
SameArguments(a, b) ==
    /\ a.key_suffix = b.key_suffix
    /\ Len(a.kwargs) = Len(b.kwargs)
    /\ \A i \in 1..Len(a.kwargs) : \E j \in 1..Len(b.kwargs) :
            /\ a.kwargs[i][1] = b.kwargs[j][1]
            /\ DeepEqual(a.kwargs[i][2], b.kwargs[j][2])

\* the store answers the get of task p in this step
GetAnswered(p) == task[p].pc = "get" /\ task'[p].pc # "get" /\ task'[p].got \in {"hit", "miss"}

\* C13: for every cache type, the key of a call is the key of every call
\* that passes the same suffix and the same keyword arguments in another
\* order (the items of a dict among them in another order), and a get that
\* the store answers finds the entry a set stored with the same arguments in
\* whatever order: it is a hit and returns what that entry holds.
C13_OrderIndependence ==
    [][\A p \in CacheProc :
          /\ \A t \in CacheType, a \in load.calls, b \in load.calls :
                (task'[p].cache_key # task[p].cache_key /\ SameArguments(a, b))
                    => CacheKey(t, a.key_suffix, a.kwargs) = CacheKey(t, b.key_suffix, b.kwargs)
          /\ GetAnswered(p) =>
                \A k \in DOMAIN store :
                    (written[k].cache_type = task[p].cache_type /\ SameArguments(written[k], task[p]))
                        => /\ task'[p].got = "hit"
                           /\ DeepEqual(task'[p].ret, JsonLoads(store[k].value).v)]_vars

\* a get with the keyword arguments, and the keys of the dict among them,
\* in the opposite order of those of the set hits the entry of the set
C13_Witness ==
    \E p \in CacheProc :
        /\ task[p].op = "get" /\ Finished(p) /\ task[p].got = "hit"
        /\ task[p].kwargs = PageOneReversed.kwargs
        /\ task[p].cache_key \in DOMAIN written
        /\ written[task[p].cache_key].kwargs = PageOne.kwargs
        /\ DeepEqual(task[p].ret, Total42)

\* C14: every entry in the store was written by a set and expires exactly
\* ttl_seconds of its cache type after the last set of its key, whatever
\* gets read it in between; and a get that the store answers ttl_seconds or
\* more after the last set of its key is a miss and returns None to its
\* caller.
C14_Expiry ==
    /\ \A k \in DOMAIN store :
        /\ k \in DOMAIN written
        /\ store[k].exp = written[k].at + CACHE_CONFIGS[written[k].cache_type].ttl_seconds
        /\ store[k].exp > now
    /\ \A p \in CacheProc :
        (Answered(p) /\ task[p].age >= CACHE_CONFIGS[task[p].cache_type].ttl_seconds) =>
            /\ task[p].got = "miss"
            /\ (task[p].op = "get" /\ Finished(p)) => task[p].ret = PyNone

\* admin_stats: a get 300 seconds after the set is a miss, a hit having been
\* counted in between
C14_Witness ==
    \E p \in CacheProc :
        /\ task[p].op = "get" /\ Finished(p) /\ task[p].cache_type = "admin_stats"
        /\ task[p].age = 300 /\ task[p].got = "miss" /\ task[p].ret = PyNone
        /\ stats.hits = 1 /\ stats.sets = 1

\* invalidate(cache_type) of task p, called without a pattern, has returned
\* and no call of the store failed
Invalidated(p) ==
    /\ task[p].op = "invalidate" /\ Finished(p)
    /\ task[p].inv = "ok" /\ task[p].pattern = Nil

\* the keys that were in the store when task p called invalidate, that the
\* call did not delete and that are in the store when it has returned
Survived(p) == (task[p].before \cap task[p].after) \ task[p].deleted

\* the keys written by set(cache_type, ...) among ks
WrittenFor(cache_type, ks) ==
    {k \in ks : k \in DOMAIN written /\ written[k].cache_type = cache_type}

\* C15 as stated: when invalidate(cache_type) without a pattern has returned
\* and the store was available, no key that set(cache_type, ...) had written
\* before the call is left in the store, for each configured cache type.
C15_Completeness ==
    \A p \in CacheProc : Invalidated(p) =>
        WrittenFor(task[p].cache_type, Survived(p)) = {}

\* task p takes a step of an invalidate called without a pattern
InvalidateSteps(p) ==
    /\ task'[p] # task[p]
    /\ task'[p].op = "invalidate" /\ task'[p].pattern = Nil

\* C16: invalidate(cache_type) without a pattern deletes no key written by
\* set for another cache type: every step of the call leaves each entry of
\* every other type in the store with its value and expiry, and the keys the
\* call has deleted were all written for its own type.
C16_Frame ==
    [][\A p \in CacheProc : InvalidateSteps(p) =>
            /\ \A k \in DOMAIN store :
                (k \in DOMAIN written /\ written[k].cache_type # task'[p].cache_type) =>
                    k \in DOMAIN store' /\ store'[k] = store[k]
            /\ WrittenFor(task'[p].cache_type, task'[p].deleted) = task'[p].deleted]_vars

\* invalidate("analytics") has deleted the analytics entry and the entry of
\* author_data written before it is still in the store
C16_Witness ==
    \E p \in CacheProc :
        /\ Invalidated(p) /\ task[p].cache_type = "analytics"
        /\ task[p].deleted # {}
        /\ WrittenFor("author_data", Survived(p)) # {}

\* C17 as stated: every get that has returned incremented exactly one of
\* hits and misses, hits when it returned a stored value and misses when it
\* returned None, so that hits + misses is the number of gets that returned.
C17_Accounting ==
    /\ stats.hits + stats.misses = hist.gets
    /\ \A p \in CacheProc :
        /\ task[p].got # "" => task[p].counted.hits + task[p].counted.misses = 1
        /\ (task[p].op = "get" /\ Finished(p)) =>
                (task[p].counted.hits = 1 <=> task[p].ret # PyNone)

\* the outcomes of a call that met a failure of the store
Failing == {"error", "no_client"}

\* C18: get, set and invalidate never raise; a get that met a failure of the
\* store returns None, a set that met one wrote nothing and did not count,
\* and the cached wrapper returns the result its function computed whenever
\* the lookup was not a hit.
C18_BestEffort ==
    \A p \in CacheProc :
        /\ ~task[p].raised
        /\ (task[p].op = "get" /\ task[p].got \in Failing) =>
                Finished(p) /\ task[p].ret = PyNone
        /\ task[p].put \in Failing =>
                /\ Finished(p)
                /\ task[p].wrote = {} /\ task[p].counted.sets = 0
        /\ task[p].inv \in Failing => Finished(p)
        /\ (task[p].op = "cached" /\ Finished(p) /\ task[p].got # "hit") =>
                task[p].ret = task[p].data /\ task[p].data \in load.payloads

\* the store failed under the lookup and under the set of a cached function:
\* the caller has the computed result and nothing was written or counted
C18_Witness ==
    \E p \in CacheProc :
        /\ task[p].op = "cached" /\ Finished(p)
        /\ task[p].got = "error" /\ task[p].put = "error"
        /\ task[p].ret = Total42
        /\ cache_client /\ stats.sets = 0 /\ store = EmptyMap

\* the pattern invalidate(cache_type, pattern) is to use: the explicit one
\* if given, else the configured one, else none
Resolved(cache_type, pattern) ==
    IF Truthy(pattern) THEN pattern
    ELSE IF HasConfig(cache_type) THEN CACHE_CONFIGS[cache_type].invalidation_pattern
    ELSE Nil

\* C19 as stated: when invalidate(cache_type, pattern) has returned with the
\* store available, no key matching cache:<resolved pattern> that was in the
\* store at the call is left, whether or not cache_type has a CacheConfig,
\* and the call deleted nothing only when there is no pattern to resolve.
C19_PatternResolution ==
    \A p \in CacheProc :
        (task[p].op = "invalidate" /\ Finished(p) /\ task[p].inv \notin Failing) =>
            LET P == Resolved(task[p].cache_type, task[p].pattern)
            IN  IF Truthy(P)
                THEN \A k \in Survived(p) : ~GlobMatch(Chars("cache:") \o P, k)
                ELSE task[p].deleted = {}

\* C20 as stated: when no invalidate is under way, the invalidations counter
\* is the number of keys the invalidate calls have deleted from the store.
C20_Accounting ==
    (\A p \in CacheProc : task[p].op = "invalidate" => Finished(p)) =>
        stats.invalidations = hist.removed

(* ---------------------------------------------------------------------- *)
(* Properties of the rate limiter, continued                               *)
(* ---------------------------------------------------------------------- *)

\* task p runs _check_local_fallback in this step
FallbackStep(p) ==
    /\ proc'[p] # proc[p]
    /\ proc'[p].pc = "decide" /\ proc'[p].mode = "local"

KeyOf(p) == GetKey(proc[p].client, proc[p].tier, Windows[proc[p].w], proc[p].current_time)

\* C26 as stated: a counter key in the store carries an expiry unless the
\* call whose incr created it is still about to call expire on it, whatever
\* the interleaving and whether or not the store fails after the incr.
C26_Expiry ==
    \A k \in DOMAIN store :
        store[k].exp = NoTTL =>
            \E p \in Proc : proc[p].pc = "expire" /\ KeyOf(p) = k

\* the minute buckets in which a call was allowed
AllowedBuckets == {k[3] : k \in DOMAIN allowed}

\* C27 as stated: of the calls a client makes under a tier with
\* requests_per_minute = N inside one minute bucket, at most N return None,
\* the store counter and the fallback counter taken together.
C27_AsStated ==
    \A c \in Client, t \in Tier, b \in AllowedBuckets :
        AllowedIn(c, t, b, "redis") + AllowedIn(c, t, b, "local")
            <= RATE_LIMIT_CONFIGS[t].requests_per_minute

\* C27, amended: each of the two counters is a cap of its own: while a
\* minute bucket lasts, at most N of the calls the store served and at most N
\* of the calls the fallback served in it have returned None, at most 2N
\* together; and a call that returns None read a count of at most N.
C27_PerCounter ==
    /\ \A c \in Client, t \in Tier, b \in AllowedBuckets :
        now < (b + 1) * 60 =>
            /\ AllowedIn(c, t, b, "redis") <= RATE_LIMIT_CONFIGS[t].requests_per_minute
            /\ AllowedIn(c, t, b, "local") <= RATE_LIMIT_CONFIGS[t].requests_per_minute
    /\ \A p \in Proc :
        (Done(p) /\ ~proc[p].ret.exceeded /\ "minute" \in Configured(proc[p].tier)) =>
            /\ proc[p].results[1].window = "minute"
            /\ proc[p].results[1].count <= RATE_LIMIT_CONFIGS[proc[p].tier].requests_per_minute

\* billing (5 per minute): the store let five calls through in minute 0 and
\* the fallback a sixth, and a call the store served was rejected
C27_Witness ==
    /\ AllowedIn("10.0.0.5", "billing", 0, "redis") = 5
    /\ AllowedIn("10.0.0.5", "billing", 0, "local") = 1
    /\ now < 60
    /\ \E p \in Proc : Done(p) /\ proc[p].mode = "redis" /\ proc[p].ret.exceeded

(* ---------------------------------------------------------------------- *)
(* Properties of the cache manager, continued                              *)
(* ---------------------------------------------------------------------- *)

\* C21 as stated: a call through a cached wrapper whose lookup found a live
\* entry returns without executing the wrapped function, whatever value was
\* stored; a call whose lookup found none executes the function and, unless
\* the set fails, stores the result under the key of the lookup and returns
\* it.
C21_Memoization ==
    \A p \in CacheProc : task[p].op = "cached" =>
        /\ task[p].got = "hit" => Finished(p) /\ task[p].put = ""
        /\ (task[p].got = "miss" /\ Finished(p) /\ task[p].put # "error") =>
                /\ task[p].put = "ok"
                /\ task[p].wrote = {CacheKey(task[p].cache_type, task[p].key_suffix, task[p].kwargs)}
                /\ task[p].ret = task[p].data

\* C28 as stated: a get called after invalidate(cache_type) has returned
\* never returns an entry that a cached wrapper wrote for a function
\* execution that had started before that invalidate returned.
C28_NoStaleWrite ==
    \A p \in CacheProc : task[p].got = "hit" => ~task[p].stale

\* C29 as stated: a get that is a hit found an entry that a set stored for
\* the same cache type, the same suffix and the same keyword arguments:
\* calls that differ in one of them, be it in the type of a value only or in
\* where a colon stands, build different keys.
C29_Injectivity ==
    \A p \in CacheProc :
        (task[p].op = "get" /\ Finished(p) /\ task[p].got = "hit"
            /\ task[p].cache_key \in DOMAIN written) =>
                /\ written[task[p].cache_key].cache_type = task[p].cache_type
                /\ SameArguments(written[task[p].cache_key], task[p])


(* ---------------------------------------------------------------------- *)
(* Properties of the middleware and of the handlers that change data       *)
(* ---------------------------------------------------------------------- *)

C22_MutationsInvalidate ==
    \A p \in CacheProc :
        (task[p].op \in {"cached", "dispatch"} /\ task[p].got = "hit") => ~task[p].outdated


(* ---------------------------------------------------------------------- *)
(* Properties of the handlers of applications                              *)
(* ---------------------------------------------------------------------- *)

\* C23: no call of approve_application_admin or reject_application_admin
\* changes an application that is approved or rejected
C23_Final ==
    \A p \in AppProc :
        handling[p].handler \in {"approve_application_admin", "reject_application_admin"} =>
            handling[p].replaced \notin {"approved", "rejected"}

\* C24: a user has at most one row in author_applications, and a submit of
\* a user who has one answers 409
C24_Unique ==
    /\ \A user_id \in Applicant : Cardinality(RowsOf(user_id)) <= 1
    /\ \A p \in AppProc :
        (handling[p].handler = "submit_application" /\ handling[p].pc = "done"
            /\ handling[p].existing) => handling[p].status_code = 409

====
